---- MODULE Spec2Model ----
(***************************************************************************)
(* Model of SQLiteVectorStore (packages/rag vector-store): the two tables  *)
(* "chunks" and "embeddings", the store handle, and the operations upsert, *)
(* search, getStats, clear and close.                                      *)
(*                                                                         *)
(* Numbers.  Embedding and query components are JavaScript doubles.  The   *)
(* model writes a component as an integer k that stands for the double     *)
(* k * 2^-150.  For small k that double is exact, its products and sums    *)
(* are exact, and its conversion to a 32-bit float (Float32Array) is a     *)
(* real rounding: float32 holds only the multiples of 2^-149 there, so an  *)
(* odd k is rounded to a neighbouring even value (ties to even mantissa).  *)
(* Scores are kept as exact values sgn * sqrt(p / q); the last-bit         *)
(* rounding of Math.sqrt and of the division is not modelled.              *)
(***************************************************************************)
EXTENDS Integers, Sequences, FiniteSets, TLC

VARIABLES
    handle,       \* "Open" | "Closed": state of this.db
    dimensions,   \* this.dimensions
    chunks,       \* rows of table chunks, in rowid order
    embeddings,   \* rows of table embeddings, in rowid order
    txn,          \* the transaction of a running upsert
    last,         \* the call that returned last (or is running) and its outcome
    observed,     \* what a reader on another connection saw during the transaction
    upserted,     \* history: per id, the chunk of its most recent committed upsert
    now,          \* the value of CURRENT_TIMESTAMP
    other,        \* an upsert called through another connection to the same file
    chunker,      \* a DocumentChunker, the document it is given and its chunks
    rag,          \* a call of the RAG API: buildIndex or search
    crawler,      \* a call of GitBookCrawler.fetchWithRetry
    client        \* a call of HyperliquidHttpClient.makeRequest

vars == <<handle, dimensions, chunks, embeddings, txn, last, observed, upserted, now,
          other, chunker, rag, crawler, client>>

----------------------------------------------------------------------------
(* Bounds and program constants *)

MaxBatch == 2          \* longest batch passed to upsert
MaxTime == 1           \* last value of the clock
MaxLines == 3          \* most lines of a document made of the line types
MaxRetriesOption == 2  \* largest maxRetries given to a crawler or an HTTP client
Dim == 3               \* dimensions given to the constructor
SnippetLimit == 200    \* search: row.content.length > 200
MaxTopK == 1000        \* search: topK > 1000
IdPrefixLength == 100  \* createChunk: content.substring(0, 100)

Ids == {1, 2}          \* chunk ids

----------------------------------------------------------------------------
(* Text.  A chunk's content is named by a key; Chars gives its characters  *)
(* as a sequence of one-character strings.  The three texts have 3, 200    *)
(* and 201 characters.                                                      *)

Alphabet == <<"a", "b", "c", "d", "e", "f", "g">>

Content(n) == [i \in 1..n |-> Alphabet[(i % 7) + 1]]

Texts == {"short", "limit", "long"}

Chars(text) ==
    IF text = "short" THEN Content(3)
    ELSE IF text = "limit" THEN Content(SnippetLimit)
    ELSE Content(SnippetLimit + 1)

Ellipsis == <<".", ".", ".">>

----------------------------------------------------------------------------
(* Vectors *)

Axis(k, c) == [i \in 1..Dim |-> IF i = k THEN c ELSE 0]

ZeroVector == [i \in 1..Dim |-> 0]

ShortVector == [i \in 1..(Dim - 1) |-> 2]

RoundedVector == [i \in 1..Dim |-> IF i = 1 THEN 3 ELSE IF i = 2 THEN 2 ELSE 0]

Chunk(id, url, title, content, startOffset, endOffset, tokenCount, embedding) ==
    [id |-> id, documentUrl |-> url, content |-> content, title |-> title,
     startOffset |-> startOffset, endOffset |-> endOffset,
     tokenCount |-> tokenCount, embedding |-> embedding]

(* The chunks callers pass.  Id 1 comes in two versions; the embedding of   *)
(* the second is not a float32 vector (it is stored as <<4, 2, 0>>).  Id 2  *)
(* comes in three: an embedding parallel to the first of id 1, one that is *)
(* stored as the zero vector, and one of the wrong length.                 *)
InputChunks == {
    Chunk(1, "U1", "T1", "short", 0, 3, 1, Axis(1, 2)),
    Chunk(1, "U2", "T2", "long", 3, SnippetLimit + 4, 40, RoundedVector),
    Chunk(2, "U3", "T3", "long", 0, SnippetLimit + 1, 40, Axis(1, 4)),
    Chunk(2, "U4", "T4", "limit", 0, SnippetLimit, 39, Axis(1, 1)),
    Chunk(2, "U5", "T5", "short", 0, 3, 1, ShortVector) }

RECURSIVE SeqsUpTo(_, _)
SeqsUpTo(S, n) ==
    IF n = 0 THEN {<< >>}
    ELSE LET shorter == SeqsUpTo(S, n - 1)
         IN  shorter \cup {Append(s, x) : s \in {t \in shorter : Len(t) = n - 1}, x \in S}

Batches == SeqsUpTo(InputChunks, MaxBatch)

Queries == {Axis(1, 2), Axis(1, 4), Axis(1, 1), Axis(2, 2), Axis(1, -2),
            RoundedVector, ZeroVector, ShortVector}

(* the calls of search: every query with the smallest and the largest      *)
(* valid topK, and the topK values around the limits                       *)
SearchInputs ==
    {<<q, k>> : q \in Queries, k \in {1, MaxTopK}}
        \cup {<<q, k>> : q \in {Axis(1, 2), ShortVector}, k \in {-1, 0, 2, MaxTopK + 1}}

----------------------------------------------------------------------------
(* Float32 storage of an embedding *)

(* Number -> float32 (round to nearest, ties to even), in units of 2^-150:  *)
(* the float32 values are the even k.                                       *)
ToFloat32(x) ==
    IF x % 2 = 0 THEN x
    ELSE IF (x + 1) % 4 = 0 THEN x + 1 ELSE x - 1

(* Buffer.from(new Float32Array(chunk.embedding).buffer) *)
EncodeEmbedding(v) == [i \in 1..Len(v) |-> ToFloat32(v[i])]

(* Array.from(new Float32Array(row.embedding.buffer)): widening is exact *)
DecodeEmbedding(blob) == [i \in 1..Len(blob) |-> blob[i]]

----------------------------------------------------------------------------
(* Cosine similarity *)

RECURSIVE GCD(_, _)
GCD(a, b) == IF b = 0 THEN a ELSE GCD(b, a % b)

RECURSIVE SumTo(_, _)
SumTo(f, n) == IF n = 0 THEN 0 ELSE f[n] + SumTo(f, n - 1)

DotProduct(a, b) == SumTo([i \in 1..Len(a) |-> a[i] * b[i]], Len(a))

(* A score is the real number sgn * sqrt(p / q), p / q in lowest terms *)
ScoreZero == [sgn |-> 0, p |-> 0, q |-> 1]
ScoreOne == [sgn |-> 1, p |-> 1, q |-> 1]
ScoreMinusOne == [sgn |-> -1, p |-> 1, q |-> 1]

(* 0 / 0: not a number *)
CosineDividingByZero(a, b) ==
    IF DotProduct(a, a) = 0 \/ DotProduct(b, b) = 0
    THEN [sgn |-> 0, p |-> 0, q |-> 0]
    ELSE [sgn |-> IF DotProduct(a, b) > 0 THEN 1 ELSE -1, p |-> 1, q |-> 1]

CosineWithoutSqrt(a, b) ==
    LET dot == DotProduct(a, b)
        normA2 == DotProduct(a, a)
        normB2 == DotProduct(b, b)
    IN  IF normA2 = 0 \/ normB2 = 0 \/ dot = 0 THEN ScoreZero
        ELSE LET num == dot * dot
                 den == (normA2 * normB2) * (normA2 * normB2)
                 g == GCD(num, den)
             IN  [sgn |-> IF dot > 0 THEN 1 ELSE -1, p |-> num \div g, q |-> den \div g]

(* cosineSimilarity(a, b) for vectors of equal length *)
CosineSimilarity(a, b) ==
    LET dot == DotProduct(a, b)
        normA2 == DotProduct(a, a)
        normB2 == DotProduct(b, b)
    IN  IF normA2 = 0 \/ normB2 = 0 THEN ScoreZero
        ELSE IF dot = 0 THEN ScoreZero
        ELSE LET num == dot * dot
                 den == normA2 * normB2
                 g == GCD(num, den)
             IN  [sgn |-> IF dot > 0 THEN 1 ELSE -1, p |-> num \div g, q |-> den \div g]

(* s < t as real numbers *)
ScoreLess(s, t) ==
    IF s.sgn # t.sgn THEN s.sgn < t.sgn
    ELSE IF s.sgn = 0 THEN FALSE
    ELSE IF s.sgn = 1 THEN s.p * t.q < t.p * s.q
    ELSE s.p * t.q > t.p * s.q

(* the sign of x.score - y.score *)
ScoreDiffSign(x, y) ==
    IF ScoreLess(x.score, y.score) THEN -1
    ELSE IF ScoreLess(y.score, x.score) THEN 1 ELSE 0

----------------------------------------------------------------------------
(* search: scan, score, snippet, sort, slice *)

Min(a, b) == IF a < b THEN a ELSE b

HasEmbedding(e, id) == \E j \in 1..Len(e) : e[j].chunk_id = id

EmbeddingOf(e, id) == e[CHOOSE j \in 1..Len(e) : e[j].chunk_id = id].embedding

(* SELECT c.id, c.document_url, c.content, c.title, e.embedding            *)
(* FROM chunks c JOIN embeddings e ON c.id = e.chunk_id                    *)
JoinRows(c, e) ==
    LET m == SelectSeq(c, LAMBDA r : HasEmbedding(e, r.id))
    IN  [j \in 1..Len(m) |->
            [id |-> m[j].id, document_url |-> m[j].document_url,
             content |-> m[j].content, title |-> m[j].title,
             embedding |-> EmbeddingOf(e, m[j].id)]]

MakeSnippetAtLimit(content) ==
    IF Len(Chars(content)) >= SnippetLimit
    THEN SubSeq(Chars(content), 1, SnippetLimit) \o Ellipsis
    ELSE Chars(content)

(* row.content.length > 200 ? row.content.substring(0, 200) + '...' : row.content *)
MakeSnippet(content) ==
    IF Len(Chars(content)) > SnippetLimit
    THEN SubSeq(Chars(content), 1, SnippetLimit) \o Ellipsis
    ELSE Chars(content)

(* one scored result per row; id is kept beside it to name the row *)
ScoreRow(row, query) ==
    [id |-> row.id, title |-> row.title, snippet |-> MakeSnippet(row.content),
     url |-> row.document_url,
     score |-> CosineSimilarity(query, DecodeEmbedding(row.embedding))]

SortCompareAscending(a, b) == ScoreDiffSign(a, b)

(* the comparator of results.sort: (a, b) => b.score - a.score *)
SortCompare(a, b) == ScoreDiffSign(b, a)

(* Array.prototype.sort is stable: x goes behind every element that does   *)
(* not compare after it.                                                    *)
InsertSorted(sorted, x) ==
    LET k == Cardinality({j \in 1..Len(sorted) : SortCompare(sorted[j], x) <= 0})
    IN  SubSeq(sorted, 1, k) \o <<x>> \o SubSeq(sorted, k + 1, Len(sorted))

RECURSIVE SortResults(_)
SortResults(rs) ==
    IF Len(rs) = 0 THEN << >>
    ELSE InsertSorted(SortResults(SubSeq(rs, 1, Len(rs) - 1)), rs[Len(rs)])

SliceOneShort(rs, topK) == SubSeq(rs, 1, Min(topK - 1, Len(rs)))

(* .slice(0, topK) *)
Slice(rs, topK) == SubSeq(rs, 1, Min(topK, Len(rs)))

(* the ranked rows search returns for a valid call on tables c, e *)
Ranked(c, e, query, topK) ==
    LET rows == JoinRows(c, e)
        results == [j \in 1..Len(rows) |-> ScoreRow(rows[j], query)]
    IN  Slice(SortResults(results), topK)

(* the SearchResult objects handed to the caller *)
ToSearchResults(ranked) ==
    [j \in 1..Len(ranked) |->
        [title |-> ranked[j].title, snippet |-> ranked[j].snippet,
         url |-> ranked[j].url, score |-> ranked[j].score]]

RowIds(ranked) == [j \in 1..Len(ranked) |-> ranked[j].id]

SearchErrorZeroTopK(c, e, query, topK, h, dims) ==
    IF Len(query) # dims THEN "INVALID_PARAMETER"
    ELSE IF topK < 0 \/ topK > MaxTopK THEN "INVALID_PARAMETER"
    ELSE IF h = "Closed" THEN "VECTOR_STORE_ERROR"
    ELSE "none"

(* the error search ends with, "none" when it returns results *)
SearchError(c, e, query, topK, h, dims) ==
    IF Len(query) # dims THEN "INVALID_PARAMETER"
    ELSE IF topK <= 0 \/ topK > MaxTopK THEN "INVALID_PARAMETER"
    ELSE IF h = "Closed" THEN "VECTOR_STORE_ERROR"
    ELSE IF \E j \in 1..Len(e) : Len(e[j].embedding) # Len(query)
         THEN "VECTOR_STORE_ERROR"
    ELSE "none"

----------------------------------------------------------------------------
(* The tables *)

EmptyTables == [chunks |-> << >>, embeddings |-> << >>]

ChunkRow(chunk) ==
    [id |-> chunk.id, document_url |-> chunk.documentUrl, content |-> chunk.content,
     title |-> chunk.title, start_offset |-> chunk.startOffset,
     end_offset |-> chunk.endOffset, token_count |-> chunk.tokenCount]

(* the row as stored: the columns the statement does not name take their  *)
(* DEFAULT, created_at DATETIME DEFAULT CURRENT_TIMESTAMP, and updated_at  *)
(* is given as CURRENT_TIMESTAMP; both are the time of the statement.      *)
Stamped(row, t) == row @@ [created_at |-> t, updated_at |-> t]

(* the columns of a stored row that upsert passes *)
Metadata(row) == [f \in DOMAIN row \ {"created_at", "updated_at"} |-> row[f]]

HasChunk(c, id) == \E j \in 1..Len(c) : c[j].id = id

InsertChunkKeepingOld(c, row) == Append(c, row)

(* INSERT OR REPLACE INTO chunks: a row with the same primary key is       *)
(* deleted, the new row gets a new rowid.                                   *)
InsertOrReplaceChunk(c, row) ==
    SelectSeq(c, LAMBDA r : r.id # row.id) \o <<row>>

(* FOREIGN KEY (chunk_id) REFERENCES chunks (id) ON DELETE CASCADE, with   *)
(* foreign_keys = ON: deleting the chunk row deletes its embedding row.     *)
CascadeDelete(e, id) == SelectSeq(e, LAMBDA r : r.chunk_id # id)

(* INSERT OR REPLACE INTO embeddings (chunk_id, embedding) VALUES (?, ?) *)
InsertOrReplaceEmbedding(e, id, blob) ==
    SelectSeq(e, LAMBDA r : r.chunk_id # id) \o <<[chunk_id |-> id, embedding |-> blob]>>

(* getStats: the row count of table chunks *)
CountChunks(c) == Len(c)

----------------------------------------------------------------------------
(* Outcome of a call *)

(* op, the handle state at the call, the error ("none": success, "pending":*)
(* still running); for upsert the batch length n, the index bad of the     *)
(* first chunk failing validation (0: none), the ids of the batch, those   *)
(* of them stored at the call, and the number of chunk rows written when   *)
(* it ended; for clear the ids stored at the call; for search the         *)
(* arguments, the results, the ids of the rows they came from, and the     *)
(* ids whose chunk the call just before, a successful upsert, wrote with   *)
(* the query as embedding; for getStats the count.                         *)
Outcome(op, h, error) ==
    [op |-> op, handle |-> h, error |-> error, n |-> 0, bad |-> 0, ids |-> {},
     stored |-> {}, written |-> 0, justUpserted |-> {}, query |-> << >>,
     topK |-> 0, result |-> << >>, rows |-> << >>, count |-> 0]

IdleTxn == [active |-> FALSE, batch |-> << >>, i |-> 0, step |-> "idle",
            began |-> 0, snapshot |-> EmptyTables]

NothingObserved == [seen |-> FALSE, query |-> << >>, topK |-> 0, result |-> << >>]

IdleOther == [state |-> "idle", batch |-> << >>, during |-> FALSE]

IdleChunker == [phase |-> "idle"]

IdleRag == [call |-> "none", phase |-> "resolved"]

IdleCrawler == [phase |-> "idle"]

IdleClient == [phase |-> "idle"]

NeverUpserted == [present |-> FALSE, title |-> "", url |-> "", embedding |-> << >>]

Init ==
    /\ handle = "Open"
    /\ dimensions = Dim
    /\ chunks = << >>
    /\ embeddings = << >>
    /\ txn = IdleTxn
    /\ last = Outcome("construct", "Open", "none")
    /\ observed = NothingObserved
    /\ upserted = [id \in Ids |-> NeverUpserted]
    /\ now = 0
    /\ other = IdleOther
    /\ chunker = IdleChunker
    /\ rag = IdleRag
    /\ crawler = IdleCrawler
    /\ client = IdleClient

----------------------------------------------------------------------------
(* upsert *)

ValidFirstChunkOnly(batch, dims) ==
    Len(batch) = 0 \/ Len(batch[1].embedding) = dims

(* the validation loop: every chunk.embedding.length === this.dimensions *)
ValidBatch(batch, dims) ==
    \A j \in 1..Len(batch) : Len(batch[j].embedding) = dims

(* the index of the chunk the validation loop throws at, 0 when it passes *)
FirstBad(batch, dims) ==
    IF \A j \in 1..Len(batch) : Len(batch[j].embedding) = dims THEN 0
    ELSE CHOOSE j \in 1..Len(batch) :
            /\ Len(batch[j].embedding) # dims
            /\ \A k \in 1..(j - 1) : Len(batch[k].embedding) = dims

BatchIds(batch) == {batch[j].id : j \in 1..Len(batch)}

DirtyReaderView == [chunks |-> chunks, embeddings |-> embeddings]

(* what a reader on another connection reads: a transaction's writes are   *)
(* invisible to it until COMMIT.                                            *)
ReaderView ==
    IF txn.active THEN txn.snapshot
    ELSE [chunks |-> chunks, embeddings |-> embeddings]

WithoutRollback == [chunks |-> chunks, embeddings |-> embeddings]

(* the tables after the transaction function threw: ROLLBACK *)
AfterRollback == txn.snapshot

UpsertOutcome(batch, h, error, dims) ==
    [Outcome("upsert", h, error) EXCEPT
        !.n = Len(batch), !.bad = FirstBad(batch, dims), !.ids = BatchIds(batch),
        !.stored = {id \in BatchIds(batch) : HasChunk(chunks, id)}]

(* the call of upsert(batch), up to BEGIN *)
Upsert(batch) ==
    /\ ~txn.active
    /\ IF Len(batch) = 0
       THEN /\ last' = UpsertOutcome(batch, handle, "none", dimensions)
            /\ UNCHANGED <<txn, observed>>
       ELSE IF ~ValidBatch(batch, dimensions)
       THEN /\ last' = UpsertOutcome(batch, handle, "INVALID_PARAMETER", dimensions)
            /\ UNCHANGED <<txn, observed>>
       ELSE IF handle = "Closed"
       THEN /\ \E err \in {"VECTOR_STORE_ERROR", "TypeError"} :
                 last' = UpsertOutcome(batch, handle, err, dimensions)
            /\ UNCHANGED <<txn, observed>>
       ELSE /\ txn' = [active |-> TRUE, batch |-> batch, i |-> 1, step |-> "chunk",
                       began |-> now,
                       snapshot |-> [chunks |-> chunks, embeddings |-> embeddings]]
            /\ last' = UpsertOutcome(batch, handle, "pending", dimensions)
            /\ observed' = NothingObserved
    /\ UNCHANGED <<rag, crawler, client, chunker, other, now, handle, dimensions, chunks, embeddings, upserted>>

(* upsertChunk.run(...) for chunk i of the batch *)
TxnWriteChunk ==
    /\ txn.active
    /\ txn.step = "chunk"
    /\ txn.i <= Len(txn.batch)
    /\ LET chunk == txn.batch[txn.i]
       IN  /\ embeddings' = IF HasChunk(chunks, chunk.id)
                            THEN CascadeDelete(embeddings, chunk.id)
                            ELSE embeddings
           /\ chunks' = InsertOrReplaceChunk(chunks, Stamped(ChunkRow(chunk), now))
    /\ txn' = [txn EXCEPT !.step = "embedding"]
    /\ last' = [last EXCEPT !.written = txn.i]
    /\ UNCHANGED <<rag, crawler, client, chunker, other, now, handle, dimensions, observed, upserted>>

(* upsertEmbedding.run(chunk.id, embeddingBuffer) for chunk i of the batch *)
TxnWriteEmbedding ==
    /\ txn.active
    /\ txn.step = "embedding"
    /\ LET chunk == txn.batch[txn.i]
       IN  embeddings' = InsertOrReplaceEmbedding(embeddings, chunk.id,
                                                  EncodeEmbedding(chunk.embedding))
    /\ txn' = [txn EXCEPT !.step = "chunk", !.i = txn.i + 1]
    /\ UNCHANGED <<rag, crawler, client, chunker, other, now, handle, dimensions, chunks, last, observed, upserted>>

(* the chunk of the batch that is written last for id *)
LastWritten(batch, id) ==
    batch[CHOOSE j \in 1..Len(batch) :
            /\ batch[j].id = id
            /\ \A k \in (j + 1)..Len(batch) : batch[k].id # id]

(* the loop is over: COMMIT, upsert resolves *)
TxnCommit ==
    /\ txn.active
    /\ txn.step = "chunk"
    /\ txn.i > Len(txn.batch)
    /\ txn' = IdleTxn
    /\ last' = [last EXCEPT !.error = "none"]
    /\ observed' = NothingObserved
    /\ upserted' = [id \in Ids |->
                      IF id \in BatchIds(txn.batch)
                      THEN [present |-> TRUE,
                            title |-> LastWritten(txn.batch, id).title,
                            url |-> LastWritten(txn.batch, id).documentUrl,
                            embedding |-> LastWritten(txn.batch, id).embedding]
                      ELSE upserted[id]]
    /\ UNCHANGED <<rag, crawler, client, chunker, other, now, handle, dimensions, chunks, embeddings>>

(* a statement of the transaction throws: ROLLBACK, then the catch block   *)
(* rejects with VECTOR_STORE_ERROR.                                         *)
TxnFault ==
    /\ txn.active
    /\ chunks' = AfterRollback.chunks
    /\ embeddings' = AfterRollback.embeddings
    /\ txn' = IdleTxn
    /\ last' = [last EXCEPT !.error = "VECTOR_STORE_ERROR"]
    /\ observed' = NothingObserved
    /\ UNCHANGED <<rag, crawler, client, chunker, other, now, handle, dimensions, upserted>>

----------------------------------------------------------------------------
(* search *)

(* a search that closed the database when it failed *)
SearchClosingOnError(query, topK) ==
    /\ ~txn.active
    /\ LET err == SearchError(chunks, embeddings, query, topK, handle, dimensions)
           ranked == IF err = "none" THEN Ranked(chunks, embeddings, query, topK)
                     ELSE << >>
       IN  /\ last' = [Outcome("search", handle, err) EXCEPT
                           !.query = query, !.topK = topK,
                           !.result = ToSearchResults(ranked), !.rows = RowIds(ranked)]
           /\ handle' = IF err = "none" THEN handle ELSE "Closed"
    /\ UNCHANGED <<rag, crawler, client, chunker, other, now, dimensions, chunks, embeddings, txn, observed, upserted>>

Search(query, topK) ==
    /\ ~txn.active
    /\ LET err == SearchError(chunks, embeddings, query, topK, handle, dimensions)
           ranked == IF err = "none" THEN Ranked(chunks, embeddings, query, topK)
                     ELSE << >>
       IN  last' = [Outcome("search", handle, err) EXCEPT
                       !.query = query, !.topK = topK,
                       !.justUpserted =
                            IF last.op = "upsert" /\ last.error = "none"
                            THEN {id \in last.ids : upserted[id].embedding = query}
                            ELSE {},
                       !.result = ToSearchResults(ranked), !.rows = RowIds(ranked)]
    /\ UNCHANGED <<rag, crawler, client, chunker, other, now, handle, dimensions, chunks, embeddings, txn, observed, upserted>>

(* a search through another open connection to the same database file,    *)
(* issued while the upsert's transaction is in progress                    *)
ConcurrentSearch(query, topK) ==
    /\ txn.active
    /\ SearchError(ReaderView.chunks, ReaderView.embeddings, query, topK,
                   "Open", dimensions) = "none"
    /\ observed' = [seen |-> TRUE, query |-> query, topK |-> topK,
                    result |-> ToSearchResults(
                        Ranked(ReaderView.chunks, ReaderView.embeddings, query, topK))]
    /\ UNCHANGED <<rag, crawler, client, chunker, other, now, handle, dimensions, chunks, embeddings, txn, last, upserted>>

----------------------------------------------------------------------------
(* getStats, clear, close *)

GetStats ==
    /\ ~txn.active
    /\ IF handle = "Closed"
       THEN last' = Outcome("getStats", handle, "VECTOR_STORE_ERROR")
       ELSE last' = [Outcome("getStats", handle, "none") EXCEPT
                        !.count = CountChunks(chunks)]
    /\ UNCHANGED <<rag, crawler, client, chunker, other, now, handle, dimensions, chunks, embeddings, txn, observed, upserted>>

DeleteFromAllButLast(table) ==
    IF Len(table) > 1 THEN <<table[Len(table)]>> ELSE << >>

(* DELETE FROM <table>: every row goes *)
DeleteFrom(table) == << >>

Clear ==
    /\ ~txn.active
    /\ IF handle = "Closed"
       THEN /\ last' = Outcome("clear", handle, "VECTOR_STORE_ERROR")
            /\ UNCHANGED <<chunks, embeddings, upserted>>
       ELSE /\ embeddings' = DeleteFrom(embeddings)
            /\ chunks' = DeleteFrom(chunks)
            /\ upserted' = [id \in Ids |-> NeverUpserted]
            /\ last' = [Outcome("clear", handle, "none") EXCEPT
                            !.stored = {id \in Ids : HasChunk(chunks, id)}]
    /\ UNCHANGED <<rag, crawler, client, chunker, other, now, handle, dimensions, txn, observed>>

(* clear() whose second statement throws: DELETE FROM embeddings has run   *)
(* and is committed on its own (the two exec calls are not in one          *)
(* transaction), DELETE FROM chunks fails, and the catch block rejects     *)
(* with VECTOR_STORE_ERROR                                                 *)
ClearFault ==
    /\ ~txn.active
    /\ handle = "Open"
    /\ embeddings' = DeleteFrom(embeddings)
    /\ last' = [Outcome("clear", handle, "VECTOR_STORE_ERROR") EXCEPT
                    !.stored = {id \in Ids : HasChunk(chunks, id)}]
    /\ UNCHANGED <<rag, crawler, client, chunker, other, now, handle, dimensions, chunks, txn, observed,
                   upserted>>

Close ==
    /\ ~txn.active
    /\ handle' = "Closed"
    /\ last' = Outcome("close", handle, "none")
    /\ UNCHANGED <<rag, crawler, client, chunker, other, now, dimensions, chunks, embeddings, txn, observed, upserted>>

----------------------------------------------------------------------------

InitializeSchemaDropping(t) == EmptyTables

(* initializeSchema on the tables found in the database file:              *)
(* CREATE TABLE IF NOT EXISTS leaves a table that exists as it is.         *)
InitializeSchema(t) == t

(* new SQLiteVectorStore(dbPath, dimensions) on the file of a store that   *)
(* was closed, with the dimensions that store had                          *)
Reopen ==
    /\ ~txn.active
    /\ handle = "Closed"
    /\ handle' = "Open"
    /\ chunks' = InitializeSchema([chunks |-> chunks, embeddings |-> embeddings]).chunks
    /\ embeddings' = InitializeSchema([chunks |-> chunks,
                                       embeddings |-> embeddings]).embeddings
    /\ last' = Outcome("construct", handle, "none")
    /\ UNCHANGED <<rag, crawler, client, chunker, other, now, dimensions, txn, observed, upserted>>

(* the clock the database reads CURRENT_TIMESTAMP from moves on *)
Tick ==
    /\ now < MaxTime
    /\ now' = now + 1
    /\ UNCHANGED <<rag, crawler, client, chunker, other, handle, dimensions, chunks, embeddings, txn, last, observed,
                   upserted>>

(* the calls of search made through the other connection *)
ReaderInputs == {<<Axis(1, 2), MaxTopK>>}

Next ==
    \/ \E batch \in Batches : Upsert(batch)
    \/ TxnWriteChunk
    \/ TxnWriteEmbedding
    \/ TxnCommit
    \/ TxnFault
    \/ \E input \in SearchInputs : Search(input[1], input[2])
    \/ \E input \in ReaderInputs : ConcurrentSearch(input[1], input[2])
    \/ GetStats
    \/ Clear
    \/ Close

Spec == Init /\ [][Next]_vars

(* the dimensions the instances of the store are constructed with *)
InstanceDimensions == {Dim, Dim - 1}

(* new SQLiteVectorStore(dbPath, d) on the file of a store that was        *)
(* closed: the dimensions are those of the call, the tables those of the   *)
(* file                                                                    *)
Construct(d) ==
    /\ ~txn.active
    /\ handle = "Closed"
    /\ handle' = "Open"
    /\ dimensions' = d
    /\ chunks' = InitializeSchema([chunks |-> chunks, embeddings |-> embeddings]).chunks
    /\ embeddings' = InitializeSchema([chunks |-> chunks,
                                       embeddings |-> embeddings]).embeddings
    /\ last' = Outcome("construct", handle, "none")
    /\ UNCHANGED <<rag, crawler, client, chunker, other, now, txn, observed, upserted>>

(* the store and the instances constructed later on its file, with any     *)
(* dimensions                                                              *)
InstancesNext ==
    \/ \E batch \in Batches : Upsert(batch)
    \/ TxnWriteChunk
    \/ TxnWriteEmbedding
    \/ TxnCommit
    \/ \E input \in SearchInputs : Search(input[1], input[2])
    \/ Close
    \/ \E d \in InstanceDimensions : Construct(d)

InstancesSpec == Init /\ [][InstancesNext]_vars

(* the store when a statement of clear() can fail as a statement of the    *)
(* upsert transaction can                                                  *)
FaultNext ==
    \/ Next
    \/ ClearFault

FaultSpec == Init /\ [][FaultNext]_vars

(* the store and the instances opened later on its file *)
PersistNext ==
    \/ Next
    \/ Reopen

PersistSpec == Init /\ [][PersistNext]_vars

(* the batches upserted through the other connection *)
WriterInputs ==
    {<<Chunk(1, "U6", "T6", "short", 0, 3, 1, Axis(2, 2))>>,
     <<Chunk(2, "U7", "T7", "short", 0, 3, 1, Axis(2, 4)),
       Chunk(1, "U8", "T8", "limit", 0, 200, 50, Axis(3, 2))>>}

WriteLockAlwaysFree == TRUE

(* the database file's write lock is free for the other connection: the    *)
(* transaction of this connection holds it from its first statement to     *)
(* COMMIT or ROLLBACK (before that statement it has read nothing, so the   *)
(* lock is taken here from BEGIN)                                          *)
WriteLockFree == ~txn.active

(* upsert(batch) is called on a store instance of another process that     *)
(* has the same file open: validation passes, its transaction begins       *)
OtherUpsert(batch) ==
    /\ other.state # "waiting"
    /\ handle = "Open"
    /\ other' = [state |-> "waiting", batch |-> batch, during |-> txn.active]
    /\ UNCHANGED <<rag, crawler, client, chunker, handle, dimensions, chunks, embeddings, txn, last, observed,
                   upserted, now>>

(* the tables after every statement of a batch has run, from tables t at   *)
(* time t0                                                                 *)
RECURSIVE RunBatch(_, _, _)
RunBatch(t, batch, t0) ==
    IF Len(batch) = 0 THEN t
    ELSE LET chunk == batch[1]
             e0 == IF HasChunk(t.chunks, chunk.id)
                   THEN CascadeDelete(t.embeddings, chunk.id) ELSE t.embeddings
             c1 == InsertOrReplaceChunk(t.chunks, Stamped(ChunkRow(chunk), t0))
             e1 == InsertOrReplaceEmbedding(e0, chunk.id,
                                            EncodeEmbedding(chunk.embedding))
         IN  RunBatch([chunks |-> c1, embeddings |-> e1], Tail(batch), t0)

(* the other connection gets the write lock; its transaction runs and      *)
(* commits before this connection can write again                          *)
OtherCommit ==
    /\ other.state = "waiting"
    /\ WriteLockFree
    /\ LET t == RunBatch([chunks |-> chunks, embeddings |-> embeddings],
                         other.batch, now)
       IN  /\ chunks' = t.chunks
           /\ embeddings' = t.embeddings
    /\ upserted' = [id \in Ids |->
                      IF id \in BatchIds(other.batch)
                      THEN [present |-> TRUE,
                            title |-> LastWritten(other.batch, id).title,
                            url |-> LastWritten(other.batch, id).documentUrl,
                            embedding |-> LastWritten(other.batch, id).embedding]
                      ELSE upserted[id]]
    /\ other' = [other EXCEPT !.state = "committed"]
    /\ UNCHANGED <<rag, crawler, client, chunker, handle, dimensions, txn, last, observed, now>>

(* the other connection does not get the write lock in time: SQLITE_BUSY,  *)
(* its transaction rolls back and its upsert rejects                       *)
OtherBusy ==
    /\ other.state = "waiting"
    /\ ~WriteLockFree
    /\ other' = [other EXCEPT !.state = "busy"]
    /\ UNCHANGED <<rag, crawler, client, chunker, handle, dimensions, chunks, embeddings, txn, last, observed,
                   upserted, now>>

(* two connections upserting into the same file *)
WritersNext ==
    \/ \E batch \in Batches : Upsert(batch)
    \/ TxnWriteChunk
    \/ TxnWriteEmbedding
    \/ TxnCommit
    \/ TxnFault
    \/ \E batch \in WriterInputs : OtherUpsert(batch)
    \/ OtherCommit
    \/ OtherBusy

WritersSpec == Init /\ [][WritersNext]_vars

(* the store with the clock running: the calls that write rows, and the    *)
(* passing of time                                                         *)
TimedNext ==
    \/ \E batch \in Batches : Upsert(batch)
    \/ TxnWriteChunk
    \/ TxnWriteEmbedding
    \/ TxnCommit
    \/ TxnFault
    \/ Clear
    \/ Tick

TimedSpec == Init /\ [][TimedNext]_vars

TypeOK ==
    /\ handle \in {"Open", "Closed"}
    /\ dimensions = Dim
    /\ txn.active \in BOOLEAN
    /\ now \in 0..MaxTime

----------------------------------------------------------------------------
(* The chunker: text *)

(* Text is a sequence of characters. The characters \s matches here *)
IsSpace(c) == c \in {" ", "\n"}

IsBlank(s) == \A i \in 1..Len(s) : IsSpace(s[i])

(* String.prototype.trim *)
Trim(s) ==
    IF IsBlank(s) THEN << >>
    ELSE LET first == CHOOSE i \in 1..Len(s) :
                        ~IsSpace(s[i]) /\ \A j \in 1..(i - 1) : IsSpace(s[j])
             final == CHOOSE i \in 1..Len(s) :
                        ~IsSpace(s[i]) /\ \A j \in (i + 1)..Len(s) : IsSpace(s[j])
         IN  SubSeq(s, first, final)

CollapseNothing(s) == s

(* .replace(/\s+/g, ' '): every run of whitespace becomes one space *)
CollapseSpaces(s) ==
    LET kept == SelectSeq([i \in 1..Len(s) |-> i],
                          LAMBDA i : ~IsSpace(s[i]) \/ i = 1 \/ ~IsSpace(s[i - 1]))
    IN  [j \in 1..Len(kept) |-> IF IsSpace(s[kept[j]]) THEN " " ELSE s[kept[j]]]

(* normalized.split(' ').filter(word => word.length > 0).length *)
WordCount(s) ==
    Cardinality({i \in 1..Len(s) : s[i] # " " /\ (i = 1 \/ s[i - 1] = " ")})

(* Math.ceil(n / d) for n >= 0, d > 0 *)
Ceil(n, d) == (n + d - 1) \div d

(* estimateTokens: Math.ceil((charCount / 4 + wordCount / 0.75) / 2), which *)
(* is ceil((3 * charCount + 16 * wordCount) / 24)                           *)
EstimateTokens(text) ==
    LET normalized == CollapseSpaces(Trim(text))
    IN  IF Len(normalized) = 0 THEN 0
        ELSE Ceil(3 * Len(normalized) + 16 * WordCount(normalized), 24)

(* the last index of the run of whitespace that begins at i *)
RunEnd(s, i) ==
    CHOOSE j \in i..Len(s) :
        /\ \A k \in i..j : IsSpace(s[k])
        /\ (j = Len(s) \/ ~IsSpace(s[j + 1]))

(* String.prototype.split with the matches of a pattern given as the set   *)
(* of their intervals: the pieces between one match and the next, from     *)
(* position p on                                                           *)
RECURSIVE SplitFrom(_, _, _)
SplitFrom(s, p, seps) ==
    LET later == {sep \in seps : sep.from >= p}
    IN  IF later = {} THEN <<SubSeq(s, p, Len(s))>>
        ELSE LET sep == CHOOSE x \in later : \A y \in later : x.from <= y.from
             IN  <<SubSeq(s, p, sep.from - 1)>> \o SplitFrom(s, sep.to + 1, seps)

(* the matches of '\n' *)
LineBreaks(s) == {[from |-> i, to |-> i] : i \in {i \in 1..Len(s) : s[i] = "\n"}}

(* the matches of /(?<=[.!?])\s+/: the runs of whitespace that follow a    *)
(* '.', '!' or '?'                                                         *)
SentenceBreaks(s) ==
    {[from |-> i, to |-> RunEnd(s, i)] :
        i \in {i \in 2..Len(s) : IsSpace(s[i]) /\ s[i - 1] \in {".", "!", "?"}}}

(* the matches of /\n\s*\n/: in a run of whitespace with two or more       *)
(* newlines, from its first newline to its last                            *)
ParagraphBreaks(s) ==
    LET firstNewlines ==
            {p \in 1..Len(s) :
                /\ s[p] = "\n"
                /\ ~\E k \in 1..(p - 1) :
                        s[k] = "\n" /\ \A m \in k..p : IsSpace(s[m])}
        lastNewline(p) ==
            CHOOSE q \in p..RunEnd(s, p) :
                s[q] = "\n" /\ \A m \in (q + 1)..RunEnd(s, p) : s[m] # "\n"
    IN  {[from |-> p, to |-> lastNewline(p)] :
            p \in {p \in firstNewlines : lastNewline(p) > p}}

NonBlank(pieces) == SelectSeq(pieces, LAMBDA piece : ~IsBlank(piece))

(* splitIntoSentences *)
SplitIntoSentences(text) ==
    LET sentences == NonBlank(SplitFrom(text, 1, SentenceBreaks(text)))
    IN  IF Len(sentences) = 1
        THEN NonBlank(SplitFrom(text, 1, ParagraphBreaks(text)))
        ELSE sentences

(* array.join(sep) *)
RECURSIVE Join(_, _)
Join(pieces, sep) ==
    IF Len(pieces) = 0 THEN << >>
    ELSE IF Len(pieces) = 1 THEN pieces[1]
    ELSE pieces[1] \o sep \o Join(Tail(pieces), sep)

----------------------------------------------------------------------------
(* The chunker: sections *)

(* the number of '#' a line begins with *)
LeadingHashes(line) ==
    IF \A i \in 1..Len(line) : line[i] = "#" THEN Len(line)
    ELSE (CHOOSE i \in 1..Len(line) :
            line[i] # "#" /\ \A j \in 1..(i - 1) : line[j] = "#") - 1

(* the number of whitespace characters s begins with *)
LeadingSpaces(s) ==
    IF IsBlank(s) THEN Len(s)
    ELSE (CHOOSE i \in 1..Len(s) :
            ~IsSpace(s[i]) /\ \A j \in 1..(i - 1) : IsSpace(s[j])) - 1

(* line.match(/^(#{1,6})\s+(.+)$/): one to six '#', whitespace, and at     *)
(* least one more character, which may be the last of the whitespace.      *)
(* The result has matched (false: null), level and title (group 2).        *)
HeaderMatch(line) ==
    LET level == LeadingHashes(line)
        rest == SubSeq(line, level + 1, Len(line))
        spaces == LeadingSpaces(rest)
    IN  IF level >= 1 /\ level <= 6 /\ spaces >= 1
           /\ (Len(rest) > spaces \/ spaces >= 2)
        THEN [matched |-> TRUE, level |-> level,
              title |-> IF Len(rest) > spaces
                        THEN SubSeq(rest, spaces + 1, Len(rest))
                        ELSE SubSeq(rest, spaces, spaces)]
        ELSE [matched |-> FALSE, level |-> 0, title |-> << >>]

(* the state of the loop of extractSections before any line *)
NoSection ==
    [sections |-> << >>, open |-> FALSE, title |-> << >>, level |-> 0,
     startLine |-> 0, currentContent |-> << >>]

SaveSectionKeepingEmpty(st) ==
    LET content == Trim(Join(st.currentContent, <<"\n">>))
    IN  IF st.open
        THEN Append(st.sections,
                    [title |-> st.title, level |-> st.level, content |-> content,
                     startLine |-> st.startLine])
        ELSE st.sections

(* "Save previous section if it exists": its content is the joined lines,  *)
(* trimmed, and it is kept only when that is not empty                     *)
SaveSection(st) ==
    LET content == Trim(Join(st.currentContent, <<"\n">>))
    IN  IF st.open /\ Len(content) > 0
        THEN Append(st.sections,
                    [title |-> st.title, level |-> st.level, content |-> content,
                     startLine |-> st.startLine])
        ELSE st.sections

RECURSIVE ExtractFromKeepingContent(_, _, _)
ExtractFromKeepingContent(lines, i, st) ==
    IF i > Len(lines) THEN st
    ELSE LET header == HeaderMatch(lines[i])
         IN  IF header.matched
             THEN ExtractFromKeepingContent(lines, i + 1,
                      [sections |-> SaveSection(st), open |-> TRUE,
                       title |-> Trim(header.title), level |-> header.level,
                       startLine |-> i - 1,
                       currentContent |-> st.currentContent])
             ELSE ExtractFromKeepingContent(lines, i + 1,
                      [st EXCEPT !.currentContent = Append(@, lines[i])])

(* the loop of extractSections over lines i..Len(lines) *)
RECURSIVE ExtractFrom(_, _, _)
ExtractFrom(lines, i, st) ==
    IF i > Len(lines) THEN st
    ELSE LET header == HeaderMatch(lines[i])
         IN  IF header.matched
             THEN ExtractFrom(lines, i + 1,
                      [sections |-> SaveSection(st), open |-> TRUE,
                       title |-> Trim(header.title), level |-> header.level,
                       startLine |-> i - 1, currentContent |-> << >>])
             ELSE ExtractFrom(lines, i + 1,
                      [st EXCEPT !.currentContent = Append(@, lines[i])])

ExtractSectionsKeepingBlank(content, docTitle) ==
    LET lines == SplitFrom(content, 1, LineBreaks(content))
        sections == SaveSection(ExtractFrom(lines, 1, NoSection))
    IN  IF Len(sections) = 0
        THEN <<[title |-> docTitle, level |-> 1, content |-> Trim(content),
                startLine |-> 0]>>
        ELSE sections

(* extractSections *)
ExtractSections(content, docTitle) ==
    LET lines == SplitFrom(content, 1, LineBreaks(content))
        sections == SaveSection(ExtractFrom(lines, 1, NoSection))
    IN  IF Len(sections) = 0
        THEN IF Len(Trim(content)) > 0
             THEN <<[title |-> docTitle, level |-> 1, content |-> Trim(content),
                     startLine |-> 0]>>
             ELSE << >>
        ELSE sections

----------------------------------------------------------------------------
(* The chunker: chunks *)

HashInputWithWholeContent(documentUrl, startOffset, endOffset, content) ==
    <<documentUrl, startOffset, endOffset, content>>

(* content.substring(0, 100) *)
Substring(s, n) == SubSeq(s, 1, Min(n, Len(s)))

(* the string that is hashed:                                              *)
(* `${documentUrl}:${startOffset}:${endOffset}:${content.substring(0, 100)}` *)
HashInput(documentUrl, startOffset, endOffset, content) ==
    <<documentUrl, startOffset, endOffset, Substring(content, IdPrefixLength)>>

(* createHash('sha256').update(input).digest('hex').substring(0, 16):      *)
(* equal inputs give equal ids; two different inputs are taken to give     *)
(* different ids (no collision of the 64 bits kept).                       *)
Sha256Hex16(input) == input

(* createChunk *)
CreateChunk(content, title, documentUrl, startOffset, endOffset, tokenCount) ==
    [id |-> Sha256Hex16(HashInput(documentUrl, startOffset, endOffset, content)),
     documentUrl |-> documentUrl, content |-> content, title |-> title,
     startOffset |-> startOffset, endOffset |-> endOffset,
     tokenCount |-> tokenCount]

(* the loop of createOverlap from sentence j down to the first, with       *)
(* overlapTokens so far: the index of the sentence at which it stops (0    *)
(* when it runs to the end); the sentences after that index are taken      *)
RECURSIVE OverlapFrom(_, _, _, _)
OverlapFrom(sentences, j, overlapTokens, targetOverlapTokens) ==
    IF j < 1 THEN 0
    ELSE IF overlapTokens + EstimateTokens(sentences[j]) > targetOverlapTokens
    THEN j
    ELSE OverlapFrom(sentences, j - 1,
                     overlapTokens + EstimateTokens(sentences[j]),
                     targetOverlapTokens)

(* createOverlap(sentences, currentIndex, targetOverlapTokens); sentences  *)
(* are counted from 1 here. Each sentence taken is put before the ones     *)
(* taken so far, with a space between them                                 *)
CreateOverlap(sentences, currentIndex, targetOverlapTokens) ==
    LET stop == OverlapFrom(sentences, currentIndex - 1, 0, targetOverlapTokens)
    IN  Join(SubSeq(sentences, stop + 1, currentIndex - 1), <<" ">>)

(* currentChunk += (currentChunk ? ' ' : '') + sentence *)
AddSentence(currentChunk, sentence) ==
    currentChunk \o (IF Len(currentChunk) > 0 THEN <<" ">> ELSE << >>) \o sentence

(* the variables of chunkSection before the loop; cuts keeps, for every    *)
(* chunk closed inside the loop, the sentence it was closed at and the     *)
(* overlap the next chunk was started with                                 *)
BeforeLoop ==
    [chunks |-> << >>, currentChunk |-> << >>, currentTokens |-> 0,
     chunkStart |-> 0, sentenceStart |-> 0, cuts |-> << >>]

MeetsMinimumAlways(currentTokens, minTokens) == TRUE

(* "Create chunk if we have enough content" *)
MeetsMinimum(currentTokens, minTokens) == currentTokens >= minTokens

(* one iteration of the loop of chunkSection: sentence i, from state st *)
LoopStep(sentences, i, st, title, documentUrl, config) ==
    LET sentence == sentences[i]
        sentenceTokens == EstimateTokens(sentence)
        exceeds == /\ st.currentTokens + sentenceTokens > config.maxTokens
                   /\ Len(st.currentChunk) > 0
        cut == exceeds /\ MeetsMinimum(st.currentTokens, config.minTokens)
        overlapContent == CreateOverlap(sentences, i, config.overlapTokens)
        added == AddSentence(st.currentChunk, sentence)
    IN  IF cut
        THEN [chunks |-> Append(st.chunks,
                            CreateChunk(Trim(st.currentChunk), title,
                                documentUrl, st.chunkStart,
                                st.chunkStart + Len(st.currentChunk),
                                st.currentTokens)),
              currentChunk |-> overlapContent,
              currentTokens |-> EstimateTokens(overlapContent),
              chunkStart |-> st.sentenceStart,
              sentenceStart |-> st.sentenceStart + Len(sentence) + 1,
              cuts |-> Append(st.cuts, [at |-> i, overlap |-> overlapContent])]
        ELSE [chunks |-> st.chunks,
              currentChunk |-> added,
              currentTokens |-> st.currentTokens + sentenceTokens,
              chunkStart |-> IF ~exceeds /\ IsBlank(added)
                             THEN st.sentenceStart ELSE st.chunkStart,
              sentenceStart |-> st.sentenceStart + Len(sentence) + 1,
              cuts |-> st.cuts]

(* the loop of chunkSection over the sentences lo..hi, entered in state    *)
(* st: the states after each of these iterations, in order. The            *)
(* iterations of the second half start from the last state of the first    *)
(* half                                                                    *)
RECURSIVE LoopStates(_, _, _, _, _, _, _)
LoopStates(sentences, lo, hi, st, title, documentUrl, config) ==
    IF lo > hi THEN << >>
    ELSE IF lo = hi
    THEN <<LoopStep(sentences, lo, st, title, documentUrl, config)>>
    ELSE LET mid == (lo + hi) \div 2
             first == LoopStates(sentences, lo, mid, st, title, documentUrl, config)
         IN  first \o LoopStates(sentences, mid + 1, hi, first[Len(first)],
                                 title, documentUrl, config)

(* the loop of chunkSection over all sentences: the state after it *)
SplitLoop(sentences, title, documentUrl, config) ==
    LET states == LoopStates(sentences, 1, Len(sentences), BeforeLoop,
                             title, documentUrl, config)
    IN  IF Len(sentences) = 0 THEN BeforeLoop ELSE states[Len(states)]

FitsStrictlyBelow(tokens, maxTokens) == tokens < maxTokens

(* sectionTokens <= this.config.maxTokens *)
FitsInOneChunk(tokens, maxTokens) == tokens <= maxTokens

(* chunkSection, an oversized section: the state after the loop *)
SplitSection(section, documentUrl, config) ==
    LET sentences == SplitIntoSentences(section.content)
    IN  SplitLoop(sentences, section.title, documentUrl, config)

(* chunkSection *)
ChunkSection(section, documentUrl, config) ==
    LET sectionTokens == EstimateTokens(section.content)
    IN  IF FitsInOneChunk(sectionTokens, config.maxTokens)
        THEN <<CreateChunk(section.content, section.title, documentUrl, 0,
                           Len(section.content), sectionTokens)>>
        ELSE LET st == SplitSection(section, documentUrl, config)
             IN  IF ~IsBlank(st.currentChunk) /\ st.currentTokens > 0
                 THEN Append(st.chunks,
                          CreateChunk(Trim(st.currentChunk), section.title,
                              documentUrl, st.chunkStart,
                              st.chunkStart + Len(st.currentChunk),
                              st.currentTokens))
                 ELSE st.chunks

RECURSIVE ChunkSections(_, _, _)
ChunkSections(sections, documentUrl, config) ==
    IF Len(sections) = 0 THEN << >>
    ELSE ChunkSection(sections[1], documentUrl, config)
            \o ChunkSections(Tail(sections), documentUrl, config)

(* chunkDocument *)
ChunkDocument(doc, config) ==
    ChunkSections(ExtractSections(doc.content, doc.title), doc.url, config)

----------------------------------------------------------------------------
(* The chunker: inputs, state and calls *)

HeadingA == <<"#", " ", "A">>

HeadingB == <<"#", " ", "B">>

OneSentence == <<"a", ".">>

BlankLine == << >>

FiveSentences ==
    <<"a", ".", " ", "b", ".", " ", "c", ".", " ", "d", ".", " ", "e", ".">>

FourLongSentences ==
    <<"a", " ", "a", ".", " ", "b", " ", "b", ".", " ",
      "c", " ", "c", ".", " ", "d", " ", "d", ".">>

(* a line of whitespace *)
SpaceLine == <<" ">>

(* sentences of 2, 3 and 1 tokens *)
GrowingSentences ==
    <<"a", " ", "a", ".", " ", "a", " ", "a", " ", "a", ".", " ", "a", ".">>

(* the sentence "a." 55 times, one space between two of them *)
ManySentences ==
    [i \in 1..164 |-> IF i % 3 = 1 THEN "a" ELSE IF i % 3 = 2 THEN "." ELSE " "]

(* a line longer than the part of the content used for the id *)
LongLine(c) == [i \in 1..IdPrefixLength |-> "x"] \o <<c, ".">>

LineTypes ==
    {HeadingA, HeadingB, OneSentence, BlankLine, FiveSentences, FourLongSentences}

(* documents of more lines: two sections with the same body, two sections  *)
(* whose bodies differ after the first 100 characters, a long body         *)
LongerDocuments ==
    {<<HeadingA, OneSentence, HeadingB, OneSentence>>,
     <<HeadingA, LongLine("y"), HeadingB, LongLine("z")>>,
     <<LongLine("y")>>,
     <<SpaceLine, SpaceLine>>,
     <<GrowingSentences>>,
     <<ManySentences>>}

Documents ==
    {[url |-> "U", title |-> <<"D">>, content |-> Join(lines, <<"\n">>)] :
        lines \in SeqsUpTo(LineTypes, MaxLines) \cup LongerDocuments}

(* new DocumentChunker() without arguments *)
DefaultConfig == [minTokens |-> 500, maxTokens |-> 1000, overlapTokens |-> 75]

(* a field of Partial<ChunkerConfig> is << >> when it is missing and <<n>>  *)
(* when it is the number n                                                 *)
Missing == << >>

(* field ?? default *)
Coalesce(field, default) == IF field = Missing THEN default ELSE field[1]

(* the configuration the constructor keeps in this.config *)
WithDefaults(partial) ==
    [minTokens |-> Coalesce(partial.minTokens, DefaultConfig.minTokens),
     maxTokens |-> Coalesce(partial.maxTokens, DefaultConfig.maxTokens),
     overlapTokens |-> Coalesce(partial.overlapTokens, DefaultConfig.overlapTokens)]

ConfigErrorAllowingEqual(config) ==
    IF config.minTokens > config.maxTokens
    THEN "minTokens must be less than maxTokens"
    ELSE IF config.overlapTokens > config.minTokens
    THEN "overlapTokens must be less than minTokens"
    ELSE IF config.overlapTokens < 0
    THEN "overlapTokens must be non-negative"
    ELSE "none"

(* "Validate configuration": the message of the Error thrown, or "none" *)
ConfigError(config) ==
    IF config.minTokens >= config.maxTokens
    THEN "minTokens must be less than maxTokens"
    ELSE IF config.overlapTokens >= config.minTokens
    THEN "overlapTokens must be less than minTokens"
    ELSE IF config.overlapTokens < 0
    THEN "overlapTokens must be non-negative"
    ELSE "none"

(* a configuration in which maxTokens is minTokens + 1 and minTokens is    *)
(* overlapTokens + 1                                                       *)
TightConfig ==
    [minTokens |-> <<53>>, maxTokens |-> <<54>>, overlapTokens |-> <<52>>]

(* new DocumentChunker() and new DocumentChunker({}) *)
NoArguments ==
    [minTokens |-> Missing, maxTokens |-> Missing, overlapTokens |-> Missing]

(* the arguments of the constructor *)
PartialConfigs ==
    [minTokens : {Missing, <<2>>, <<3>>},
     maxTokens : {<<3>>, <<4>>},
     overlapTokens : {Missing, <<-1>>, <<0>>, <<1>>, <<2>>}]
        \cup {NoArguments, TightConfig}

(* no document has been given to chunkDocument *)
NoDocument == [url |-> "", title |-> << >>, content |-> << >>]

(* no chunker has been constructed; the store is as constructed *)
ChunkerInit ==
    /\ handle = "Open"
    /\ dimensions = Dim
    /\ chunks = << >>
    /\ embeddings = << >>
    /\ txn = IdleTxn
    /\ last = Outcome("construct", "Open", "none")
    /\ observed = NothingObserved
    /\ upserted = [id \in Ids |-> NeverUpserted]
    /\ now = 0
    /\ other = IdleOther
    /\ chunker = IdleChunker
    /\ rag = IdleRag
    /\ crawler = IdleCrawler
    /\ client = IdleClient

(* new DocumentChunker(partial): throws, or keeps the configuration *)
NewDocumentChunker(partial) ==
    /\ chunker.phase = "idle"
    /\ chunker' = LET config == WithDefaults(partial)
                      error == ConfigError(config)
                  IN  [phase |-> IF error = "none" THEN "constructed" ELSE "failed",
                       given |-> partial, config |-> config, error |-> error,
                       doc |-> NoDocument, chunks |-> << >>, previous |-> << >>]
    /\ UNCHANGED <<rag, crawler, client,
                   handle, dimensions, chunks, embeddings, txn, last, observed,
                   upserted, now, other>>

(* chunkDocument(doc), the first call; nothing in it throws *)
ChunkDocumentCall(doc) ==
    /\ chunker.phase = "constructed"
    /\ chunker' = [chunker EXCEPT
                      !.phase = "chunked",
                      !.doc = doc,
                      !.error = "none",
                      !.chunks = ChunkDocument(doc, chunker.config)]
    /\ UNCHANGED <<rag, crawler, client,
                   handle, dimensions, chunks, embeddings, txn, last, observed,
                   upserted, now, other>>

(* chunkDocument(doc) called again with the same document *)
ChunkDocumentAgain ==
    /\ chunker.phase = "chunked"
    /\ chunker' = [chunker EXCEPT
                      !.phase = "rechunked",
                      !.previous = chunker.chunks,
                      !.chunks = ChunkDocument(chunker.doc, chunker.config)]
    /\ UNCHANGED <<rag, crawler, client,
                   handle, dimensions, chunks, embeddings, txn, last, observed,
                   upserted, now, other>>

ChunkerNext ==
    \/ \E partial \in PartialConfigs : NewDocumentChunker(partial)
    \/ \E doc \in Documents : ChunkDocumentCall(doc)
    \/ ChunkDocumentAgain

ChunkerSpec == ChunkerInit /\ [][ChunkerNext]_vars

----------------------------------------------------------------------------
(* The RAG API: buildIndex and search *)

DefaultTopK == 5       \* search: options.topK || 5
RagMaxTopK == 100      \* search: topK > 100

(* what a call throws or rejects with: the code of a HyperliquidError, or  *)
(* "Error" for any other error                                             *)
IsHyperliquidError(e) == e # "Error"

(* a catch block that throws every error again as it is *)
RethrownAlways(e, code) == e

(* the catch blocks: a HyperliquidError is thrown again, any other error   *)
(* is wrapped with the code of the function                                *)
Rethrown(e, code) == IF IsHyperliquidError(e) THEN e ELSE code

(* config.embeddingProvider and whether config.openaiApiKey is set *)
RagConfigs == {[embeddingProvider |-> "openai", openaiApiKey |-> TRUE],
               [embeddingProvider |-> "openai", openaiApiKey |-> FALSE],
               [embeddingProvider |-> "local", openaiApiKey |-> TRUE]}

(* createEmbeddingProvider: the code it throws, "none" when it returns the *)
(* OpenAIEmbedder                                                          *)
CreateEmbeddingProvider(config) ==
    IF config.embeddingProvider = "openai"
    THEN IF ~config.openaiApiKey THEN "CONFIG_ERROR" ELSE "none"
    ELSE IF config.embeddingProvider = "local" THEN "NOT_IMPLEMENTED"
    ELSE "CONFIG_ERROR"

(* the documents of a crawled site, each given by the chunks that          *)
(* chunker.chunkDocument makes of it: no document, one page, two pages,    *)
(* and a page without text                                                 *)
CrawledSites ==
    LET pageOne == [url |-> "U1",
                    chunks |-> <<Chunk(1, "U1", "T1", "short", 0, 3, 1, << >>)>>]
        pageTwo == [url |-> "U3",
                    chunks |-> <<Chunk(2, "U3", "T3", "long", 0, SnippetLimit + 1,
                                       40, << >>)>>]
        blankPage == [url |-> "U6", chunks |-> << >>]
    IN  {<< >>, <<pageOne>>, <<pageOne, pageTwo>>, <<blankPage>>}

(* what crawler.crawlSite() settles with: its documents, or an error *)
CrawlOutcomes ==
    {[error |-> "none", documents |-> d] : d \in CrawledSites}
      \cup {[error |-> e, documents |-> << >>] : e \in {"Error", "NETWORK_ERROR"}}

(* crawlResult.documents.flatMap(doc => chunker.chunkDocument(doc)) *)
RECURSIVE FlatMapChunks(_)
FlatMapChunks(documents) ==
    IF Len(documents) = 0 THEN << >>
    ELSE Head(documents).chunks \o FlatMapChunks(Tail(documents))

(* what embeddingProvider.embed(texts) settles with: an error, or vectors  *)
(* for the texts, all of them or all but the last                          *)
EmbedOutcomes ==
    {[error |-> "none", vector |-> v, short |-> b] :
        v \in {Axis(1, 2), Axis(2, 2)}, b \in BOOLEAN}
      \cup {[error |-> e, vector |-> << >>, short |-> FALSE] :
                e \in {"Error", "EMBEDDING_FAILED"}}

(* the embeddings an outcome without error holds for n texts *)
EmbeddingsOf(outcome, n) ==
    [i \in 1..(IF outcome.short /\ n > 0 THEN n - 1 ELSE n) |-> outcome.vector]

(* allChunks.map((chunk, i) => ({...chunk, embedding: embeddings[i] || []})) *)
ChunksWithEmbeddings(allChunks, embs) ==
    [i \in 1..Len(allChunks) |->
        [allChunks[i] EXCEPT !.embedding = IF i <= Len(embs) THEN embs[i] ELSE << >>]]

(* vectorStore.upsert(batch) on the store instance the call constructs on  *)
(* config.dbPath: the error it rejects with ("none": it resolves); a       *)
(* statement of its transaction fails when fault holds                     *)
StoreUpsertError(batch, dims, fault) ==
    IF Len(batch) = 0 THEN "none"
    ELSE IF ~ValidBatch(batch, dims) THEN "INVALID_PARAMETER"
    ELSE IF fault THEN "VECTOR_STORE_ERROR"
    ELSE "none"

RagSettled == rag.phase \in {"resolved", "rejected"}

(* buildIndex(options) up to await crawler.crawlSite() *)
BuildIndexCall(config) ==
    /\ RagSettled
    /\ rag' = [call |-> "buildIndex", phase |-> "crawling", config |-> config,
               stages |-> <<"crawling">>, crawled |-> FALSE, documents |-> << >>,
               allChunks |-> << >>, embedCalls |-> 0, embedded |-> FALSE,
               batch |-> << >>, upsertCalls |-> 0, upsertError |-> "none",
               thrown |-> "none", error |-> "none",
               before |-> [chunks |-> chunks, embeddings |-> embeddings]]
    /\ UNCHANGED <<crawler, client, chunker, other, now, handle, dimensions, chunks,
                   embeddings, txn, last, observed, upserted>>

(* crawlSite() settled: buildIndex up to await embeddingProvider.embed(texts) *)
BuildIndexCrawled(outcome) ==
    /\ rag.call = "buildIndex"
    /\ rag.phase = "crawling"
    /\ rag' =
         IF outcome.error # "none"
         THEN [rag EXCEPT !.phase = "rejected",
                          !.thrown = outcome.error,
                          !.error = Rethrown(outcome.error, "INDEX_BUILD_FAILED")]
         ELSE IF Len(outcome.documents) = 0
         THEN [rag EXCEPT !.phase = "rejected",
                          !.crawled = TRUE,
                          !.thrown = "CRAWL_FAILED",
                          !.error = Rethrown("CRAWL_FAILED", "INDEX_BUILD_FAILED")]
         ELSE IF CreateEmbeddingProvider(rag.config) # "none"
         THEN [rag EXCEPT !.phase = "rejected",
                          !.crawled = TRUE,
                          !.documents = outcome.documents,
                          !.stages = rag.stages \o <<"chunking", "embedding">>,
                          !.allChunks = FlatMapChunks(outcome.documents),
                          !.thrown = CreateEmbeddingProvider(rag.config),
                          !.error = Rethrown(CreateEmbeddingProvider(rag.config),
                                             "INDEX_BUILD_FAILED")]
         ELSE [rag EXCEPT !.phase = "embedding",
                          !.crawled = TRUE,
                          !.documents = outcome.documents,
                          !.stages = rag.stages \o <<"chunking", "embedding">>,
                          !.allChunks = FlatMapChunks(outcome.documents),
                          !.embedCalls = rag.embedCalls + 1]
    /\ UNCHANGED <<crawler, client, chunker, other, now, handle, dimensions, chunks,
                   embeddings, txn, last, observed, upserted>>

(* embed(texts) settled: buildIndex up to await vectorStore.upsert(...),   *)
(* with the run of that upsert on the new store instance                   *)
BuildIndexEmbedded(outcome, fault) ==
    /\ rag.call = "buildIndex"
    /\ rag.phase = "embedding"
    /\ ~txn.active
    /\ IF outcome.error # "none"
       THEN /\ rag' = [rag EXCEPT !.phase = "rejected",
                           !.thrown = outcome.error,
                           !.error = Rethrown(outcome.error, "INDEX_BUILD_FAILED")]
            /\ UNCHANGED <<chunks, embeddings, upserted>>
       ELSE LET batch == ChunksWithEmbeddings(rag.allChunks,
                                              EmbeddingsOf(outcome, Len(rag.allChunks)))
                err == StoreUpsertError(batch, Dim, fault)
                t == IF err = "none"
                     THEN RunBatch([chunks |-> chunks, embeddings |-> embeddings],
                                   batch, now)
                     ELSE [chunks |-> chunks, embeddings |-> embeddings]
            IN  /\ rag' = [rag EXCEPT !.phase = "storing",
                               !.embedded = TRUE,
                               !.stages = Append(rag.stages, "storing"),
                               !.batch = batch,
                               !.upsertCalls = rag.upsertCalls + 1,
                               !.upsertError = err]
                /\ chunks' = t.chunks
                /\ embeddings' = t.embeddings
                /\ upserted' = [id \in Ids |->
                                  IF err = "none" /\ id \in BatchIds(batch)
                                  THEN [present |-> TRUE,
                                        title |-> LastWritten(batch, id).title,
                                        url |-> LastWritten(batch, id).documentUrl,
                                        embedding |-> LastWritten(batch, id).embedding]
                                  ELSE upserted[id]]
    /\ UNCHANGED <<crawler, client, chunker, other, now, handle, dimensions, txn, last,
                   observed>>

(* a buildIndex that reported 'complete' whatever the upsert settled with *)
BuildIndexStoredAlwaysComplete ==
    /\ rag.call = "buildIndex"
    /\ rag.phase = "storing"
    /\ rag' = [rag EXCEPT !.phase = "resolved",
                          !.stages = Append(rag.stages, "complete")]
    /\ UNCHANGED <<crawler, client, chunker, other, now, handle, dimensions, chunks,
                   embeddings, txn, last, observed, upserted>>

(* upsert settled: buildIndex to its end *)
BuildIndexStored ==
    /\ rag.call = "buildIndex"
    /\ rag.phase = "storing"
    /\ rag' = IF rag.upsertError # "none"
              THEN [rag EXCEPT !.phase = "rejected",
                               !.thrown = rag.upsertError,
                               !.error = Rethrown(rag.upsertError, "INDEX_BUILD_FAILED")]
              ELSE [rag EXCEPT !.phase = "resolved",
                               !.stages = Append(rag.stages, "complete")]
    /\ UNCHANGED <<crawler, client, chunker, other, now, handle, dimensions, chunks,
                   embeddings, txn, last, observed, upserted>>

(* the queries given to search, as characters *)
RagQueries == {<< >>, <<" ", " ">>, <<"a">>, <<" ", "a">>}

(* options.topK: Missing, or the number given *)
RagTopKs == {Missing, <<-1>>, <<0>>, <<1>>, <<10>>, <<RagMaxTopK>>, <<RagMaxTopK + 1>>}

(* options.topK || 5: undefined and 0 are falsy *)
TopKOrDefault(given) ==
    IF given = Missing \/ given[1] = 0 THEN DefaultTopK ELSE given[1]

(* the validation of search: the code it throws, "none" when it passes *)
RagSearchError(query, topK) ==
    IF Len(Trim(query)) = 0 THEN "INVALID_INPUT"
    ELSE IF topK < 1 \/ topK > RagMaxTopK THEN "INVALID_INPUT"
    ELSE "none"

(* search(query, options) up to await embeddingProvider.embed([query]) *)
RagSearchCall(query, given, config) ==
    /\ RagSettled
    /\ LET topK == TopKOrDefault(given)
           call == [call |-> "search", phase |-> "embedding", config |-> config,
                    query |-> query, given |-> given, topK |-> topK,
                    embedCalls |-> 0, storeCalls |-> << >>, storeError |-> "none",
                    result |-> << >>, error |-> "none"]
       IN  rag' = IF RagSearchError(query, topK) # "none"
                  THEN [call EXCEPT !.phase = "rejected",
                                    !.error = RagSearchError(query, topK)]
                  ELSE IF CreateEmbeddingProvider(config) # "none"
                  THEN [call EXCEPT !.phase = "rejected",
                                    !.error = Rethrown(CreateEmbeddingProvider(config),
                                                       "SEARCH_FAILED")]
                  ELSE [call EXCEPT !.embedCalls = 1]
    /\ UNCHANGED <<crawler, client, chunker, other, now, handle, dimensions, chunks,
                   embeddings, txn, last, observed, upserted>>

(* embed([query]) settled: search up to await vectorStore.search(...),     *)
(* with the run of that search on the new store instance                   *)
RagSearchEmbedded(outcome) ==
    /\ rag.call = "search"
    /\ rag.phase = "embedding"
    /\ rag' =
         IF outcome.error # "none"
         THEN [rag EXCEPT !.phase = "rejected",
                          !.error = Rethrown(outcome.error, "SEARCH_FAILED")]
         ELSE LET queryEmbeddings == EmbeddingsOf(outcome, 1)
                  queryEmbedding == IF Len(queryEmbeddings) >= 1
                                    THEN queryEmbeddings[1] ELSE << >>
                  err == SearchError(chunks, embeddings, queryEmbedding, rag.topK,
                                     "Open", Dim)
              IN  [rag EXCEPT !.phase = "searching",
                              !.storeCalls = Append(rag.storeCalls,
                                                    <<queryEmbedding, rag.topK>>),
                              !.storeError = err,
                              !.result = IF err = "none"
                                         THEN ToSearchResults(
                                                Ranked(chunks, embeddings,
                                                       queryEmbedding, rag.topK))
                                         ELSE << >>]
    /\ UNCHANGED <<crawler, client, chunker, other, now, handle, dimensions, chunks,
                   embeddings, txn, last, observed, upserted>>

(* vectorStore.search settled: search to its end *)
RagSearchSearched ==
    /\ rag.call = "search"
    /\ rag.phase = "searching"
    /\ rag' = IF rag.storeError # "none"
              THEN [rag EXCEPT !.phase = "rejected",
                               !.error = Rethrown(rag.storeError, "SEARCH_FAILED")]
              ELSE [rag EXCEPT !.phase = "resolved"]
    /\ UNCHANGED <<crawler, client, chunker, other, now, handle, dimensions, chunks,
                   embeddings, txn, last, observed, upserted>>

RagNext ==
    \/ \E config \in RagConfigs : BuildIndexCall(config)
    \/ \E outcome \in CrawlOutcomes : BuildIndexCrawled(outcome)
    \/ \E outcome \in EmbedOutcomes, fault \in BOOLEAN :
          BuildIndexEmbedded(outcome, fault)
    \/ BuildIndexStored
    \/ \E query \in RagQueries, given \in RagTopKs, config \in RagConfigs :
          RagSearchCall(query, given, config)
    \/ \E outcome \in EmbedOutcomes : RagSearchEmbedded(outcome)
    \/ RagSearchSearched

RagSpec == Init /\ [][RagNext]_vars

----------------------------------------------------------------------------
(* Retries: GitBookCrawler.fetchWithRetry and                              *)
(* HyperliquidHttpClient.makeRequest                                       *)

CrawlerDefaultRetries == 3   \* crawler: options.maxRetries || 3
ClientDefaultRetries == 3    \* http client: config.maxRetries ?? 3

(* the maxRetries given to a constructor: Missing, or a number of retries *)
RetryOptions == {Missing} \cup {<<n>> : n \in 0..MaxRetriesOption}

(* this.maxRetries = options.maxRetries || 3: undefined and 0 are falsy *)
CrawlerMaxRetries(given) ==
    IF given = Missing \/ given[1] = 0 THEN CrawlerDefaultRetries ELSE given[1]

(* what an attempt of the crawler ends with: an ok response and its text,  *)
(* status 429, another status that is not ok, fetch rejecting, and an ok   *)
(* response whose text() rejects                                           *)
FetchResults == {"ok", "429", "500", "network", "body"}

CrawlerLoopsOnceMore(attempt, maxRetries) == attempt <= maxRetries + 1

(* for (let attempt = 1; attempt <= this.maxRetries; attempt++) *)
CrawlerLoops(attempt, maxRetries) == attempt <= maxRetries

(* the head of the loop for attempt: the body up to await fetch(url, ...), *)
(* or the throw after the loop                                             *)
CrawlerAttempt(c, attempt) ==
    IF CrawlerLoops(attempt, c.maxRetries)
    THEN [c EXCEPT !.phase = "fetching", !.attempt = attempt, !.issued = c.issued + 1]
    ELSE [c EXCEPT !.phase = "rejected", !.attempt = attempt, !.error = "NETWORK_ERROR"]

(* fetchWithRetry(url) of a crawler constructed with maxRetries given *)
FetchWithRetryCall(given) ==
    /\ crawler.phase \in {"idle", "resolved", "rejected"}
    /\ crawler' = CrawlerAttempt([phase |-> "called",
                                  maxRetries |-> CrawlerMaxRetries(given),
                                  attempt |-> 0, issued |-> 0, results |-> << >>,
                                  lastError |-> "none", error |-> "none", body |-> 0],
                                 1)
    /\ UNCHANGED <<rag, client, chunker, other, now, handle, dimensions, chunks,
                   embeddings, txn, last, observed, upserted>>

(* the attempt ends with result: return of the text, sleep on 429 and      *)
(* continue, or the catch block, up to its sleep or its break; body is the *)
(* number of the attempt whose text is returned                            *)
FetchSettled(result) ==
    /\ crawler.phase = "fetching"
    /\ LET c == [crawler EXCEPT !.results = Append(crawler.results, result)]
       IN  crawler' =
             IF result = "ok"
             THEN [c EXCEPT !.phase = "resolved", !.body = crawler.attempt]
             ELSE IF result = "429"
             THEN [c EXCEPT !.phase = "sleeping"]
             ELSE IF crawler.attempt = crawler.maxRetries
             THEN [c EXCEPT !.phase = "rejected", !.lastError = result,
                            !.error = "NETWORK_ERROR"]
             ELSE [c EXCEPT !.phase = "sleeping", !.lastError = result]
    /\ UNCHANGED <<rag, client, chunker, other, now, handle, dimensions, chunks,
                   embeddings, txn, last, observed, upserted>>

(* this.sleep(...) is over: attempt++ and the head of the loop *)
CrawlerBackoffOver ==
    /\ crawler.phase = "sleeping"
    /\ crawler' = CrawlerAttempt(crawler, crawler.attempt + 1)
    /\ UNCHANGED <<rag, client, chunker, other, now, handle, dimensions, chunks,
                   embeddings, txn, last, observed, upserted>>

CrawlerNext ==
    \/ \E given \in RetryOptions : FetchWithRetryCall(given)
    \/ \E result \in FetchResults : FetchSettled(result)
    \/ CrawlerBackoffOver

CrawlerSpec == Init /\ [][CrawlerNext]_vars

(* this.maxRetries = config.maxRetries ?? 3 *)
ClientMaxRetries(given) == IF given = Missing THEN ClientDefaultRetries ELSE given[1]

(* what an attempt of the client ends with: an ok response and its JSON, a *)
(* status that is not ok, fetch rejecting (network error, abort on         *)
(* timeout), and an ok response whose json() rejects                       *)
RequestResults == {"ok", "400", "404", "429", "500", "network", "json"}

(* handleHttpError: the code of the HyperliquidError for a status *)
HandleHttpError(status) ==
    IF status = "400" THEN "VALIDATION_FAILED"
    ELSE IF status = "429" THEN "RATE_LIMITED"
    ELSE "NETWORK_ERROR"

(* what the try block throws for a result that is not ok *)
RequestError(result) ==
    IF result \in {"network", "json"} THEN "Error" ELSE HandleHttpError(result)

IsRetryableAlways(code) == TRUE

(* HyperliquidError.isRetryable *)
IsRetryable(code) ==
    code \in {"NETWORK_ERROR", "TIMEOUT", "RATE_LIMITED", "TOO_MANY_REQUESTS",
              "WS_CONNECTION_FAILED", "WS_DISCONNECTED"}

(* the head of the loop, for (let attempt = 0; attempt <= this.maxRetries; *)
(* attempt++), up to await fetch(url, ...), or the throw after the loop    *)
ClientAttempt(c, attempt) ==
    IF attempt <= c.maxRetries
    THEN [c EXCEPT !.phase = "fetching", !.attempt = attempt, !.issued = c.issued + 1]
    ELSE [c EXCEPT !.phase = "rejected", !.attempt = attempt,
                   !.error = IF IsHyperliquidError(c.lastError) /\ c.lastError # "none"
                             THEN c.lastError ELSE "NETWORK_ERROR"]

(* makeRequest(endpoint, body) of a client constructed with maxRetries given *)
MakeRequestCall(given) ==
    /\ client.phase \in {"idle", "resolved", "rejected"}
    /\ client' = ClientAttempt([phase |-> "called",
                                maxRetries |-> ClientMaxRetries(given),
                                attempt |-> 0, issued |-> 0, results |-> << >>,
                                lastError |-> "none", error |-> "none", data |-> 0],
                               0)
    /\ UNCHANGED <<rag, crawler, chunker, other, now, handle, dimensions, chunks,
                   embeddings, txn, last, observed, upserted>>

(* the attempt ends with result: return of the data, or the catch block,   *)
(* up to its throw, its break and the throw after the loop, or its sleep;  *)
(* data is the number of the fetch whose JSON is returned                  *)
RequestSettled(result) ==
    /\ client.phase = "fetching"
    /\ LET c == [client EXCEPT !.results = Append(client.results, result)]
           e == RequestError(result)
       IN  client' =
             IF result = "ok"
             THEN [c EXCEPT !.phase = "resolved", !.data = client.issued]
             ELSE IF IsHyperliquidError(e) /\ ~IsRetryable(e)
             THEN [c EXCEPT !.phase = "rejected", !.lastError = e, !.error = e]
             ELSE IF client.attempt = client.maxRetries
             THEN [c EXCEPT !.phase = "rejected", !.lastError = e,
                            !.error = IF IsHyperliquidError(e) THEN e
                                      ELSE "NETWORK_ERROR"]
             ELSE [c EXCEPT !.phase = "sleeping", !.lastError = e]
    /\ UNCHANGED <<rag, crawler, chunker, other, now, handle, dimensions, chunks,
                   embeddings, txn, last, observed, upserted>>

(* this.sleep(delay) is over: attempt++ and the head of the loop *)
ClientBackoffOver ==
    /\ client.phase = "sleeping"
    /\ client' = ClientAttempt(client, client.attempt + 1)
    /\ UNCHANGED <<rag, crawler, chunker, other, now, handle, dimensions, chunks,
                   embeddings, txn, last, observed, upserted>>

ClientNext ==
    \/ \E given \in RetryOptions : MakeRequestCall(given)
    \/ \E result \in RequestResults : RequestSettled(result)
    \/ ClientBackoffOver

ClientSpec == Init /\ [][ClientNext]_vars

----------------------------------------------------------------------------
(* Helpers of the properties *)

Present == {id \in Ids : upserted[id].present}

ChunkRowOf(c, id) == c[CHOOSE j \in 1..Len(c) : c[j].id = id]

(* every id of the batch has the metadata record and the embedding record  *)
(* of the chunk the batch writes last for it                               *)
AllStored(batch, c, e) ==
    \A id \in BatchIds(batch) :
        /\ HasChunk(c, id)
        /\ Metadata(ChunkRowOf(c, id)) = ChunkRow(LastWritten(batch, id))
        /\ HasEmbedding(e, id)
        /\ EmbeddingOf(e, id) = EncodeEmbedding(LastWritten(batch, id).embedding)

(* the tables a batch leaves when all its statements have run, from tables t *)
RECURSIVE ApplyBatch(_, _)
ApplyBatch(t, batch) ==
    IF Len(batch) = 0 THEN t
    ELSE LET chunk == batch[1]
             c1 == SelectSeq(t.chunks, LAMBDA r : r.id # chunk.id) \o <<ChunkRow(chunk)>>
             e1 == SelectSeq(t.embeddings, LAMBDA r : r.chunk_id # chunk.id)
                     \o <<[chunk_id |-> chunk.id,
                           embedding |-> EncodeEmbedding(chunk.embedding)]>>
         IN  ApplyBatch([chunks |-> c1, embeddings |-> e1], Tail(batch))

SearchOn(t, query, topK) == ToSearchResults(Ranked(t.chunks, t.embeddings, query, topK))

----------------------------------------------------------------------------
(* C1: when some chunk of the batch passed to upsert has an embedding      *)
(* whose length differs from the store's dimensions, upsert fails with     *)
(* INVALID_PARAMETER and both tables are what they were before the call:   *)
(* no chunk of the batch is written, also not one that precedes the        *)
(* offending chunk.                                                        *)
C1_MismatchRejectsWholeBatch ==
    [][(~txn.active /\ last'.op = "upsert" /\ last'.bad > 0)
          => (/\ last'.error = "INVALID_PARAMETER"
              /\ ~txn'.active
              /\ chunks' = chunks
              /\ embeddings' = embeddings)]_vars

(* an upsert was rejected for a chunk that follows a valid one, on a store *)
(* that holds rows                                                         *)
C1_Witness ==
    /\ last.op = "upsert"
    /\ last.error = "INVALID_PARAMETER"
    /\ last.bad > 1
    /\ Len(chunks) > 0

(* C2: when a call of upsert has returned, with success or with an error,  *)
(* either every chunk of the batch is stored with its metadata record and  *)
(* its embedding record, or the tables are exactly what they were before   *)
(* the call.                                                               *)
C2_UpsertAllOrNothing ==
    [][/\ (txn.active /\ ~txn'.active)
            => \/ AllStored(txn.batch, chunks', embeddings')
               \/ (chunks' = txn.snapshot.chunks /\ embeddings' = txn.snapshot.embeddings)
       /\ (~txn.active /\ ~txn'.active /\ last'.op = "upsert")
            => (chunks' = chunks /\ embeddings' = embeddings)]_vars

(* an upsert of two chunks failed after it had written rows, and the       *)
(* tables are back to the non-empty content they had                       *)
C2_Witness ==
    /\ ~txn.active
    /\ last.op = "upsert"
    /\ last.error = "VECTOR_STORE_ERROR"
    /\ last.handle = "Open"
    /\ last.n = 2
    /\ last.written >= 1
    /\ Len(chunks) > 0

(* C3: upserting a stored id replaces its row: getStats().chunkCount is    *)
(* the number of distinct ids upserted since the last clear, and a search  *)
(* returns, for each such id, the title and url of its most recent upsert. *)
C3_UpsertReplaces ==
    /\ ~txn.active => CountChunks(chunks) = Cardinality(Present)
    /\ (last.op = "getStats" /\ last.error = "none")
            => last.count = Cardinality(Present)
    /\ (last.op = "search" /\ last.error = "none")
            => /\ \A j \in 1..Len(last.rows) :
                    /\ last.rows[j] \in Present
                    /\ last.result[j].title = upserted[last.rows[j]].title
                    /\ last.result[j].url = upserted[last.rows[j]].url
               /\ last.topK >= Cardinality(Present)
                    => \A id \in Present : \E j \in 1..Len(last.rows) : last.rows[j] = id

(* an upsert of an id that was stored has returned, and the table holds    *)
(* one row                                                                 *)
C3_Witness ==
    /\ last.op = "upsert"
    /\ last.error = "none"
    /\ last.stored # {}
    /\ CountChunks(chunks) = 1

C5_ClosedRejectsEveryCall ==
    [][/\ handle = "Closed" => handle' = "Closed"
       /\ (/\ ~txn.active
           /\ last'.op \in {"upsert", "search", "getStats", "clear"}
           /\ last'.handle = "Closed")
            => last'.error = "VECTOR_STORE_ERROR"]_vars

(* C6: search fails with INVALID_PARAMETER whenever the query length       *)
(* differs from the dimensions or topK is outside 1..1000, and such a      *)
(* search leaves both tables unchanged.                                    *)
C6_InvalidSearchRejected ==
    [][(/\ ~txn.active
        /\ last'.op = "search"
        /\ \/ Len(last'.query) # dimensions
           \/ last'.topK < 1
           \/ last'.topK > 1000)
          => (/\ last'.error = "INVALID_PARAMETER"
              /\ chunks' = chunks
              /\ embeddings' = embeddings)]_vars

(* a search with a query of the right length and topK = 0 was rejected on  *)
(* a store that holds rows                                                 *)
C6_Witness ==
    /\ last.op = "search"
    /\ last.error = "INVALID_PARAMETER"
    /\ Len(last.query) = dimensions
    /\ last.topK = 0
    /\ Len(chunks) > 0

(* C7: a search with a valid query and topK on an open store returns       *)
(* min(topK, number of stored chunks) results, each from another stored    *)
(* chunk; on a store without chunks it returns the empty sequence and no   *)
(* error.                                                                  *)
C7_SearchReturnsMinTopKCount ==
    (/\ last.op = "search"
     /\ last.handle = "Open"
     /\ Len(last.query) = dimensions
     /\ last.topK >= 1
     /\ last.topK <= 1000)
        => /\ last.error = "none"
           /\ Len(last.result) = Min(last.topK, CountChunks(chunks))
           /\ Len(last.rows) = Len(last.result)
           /\ \A j \in 1..Len(last.rows) : HasChunk(chunks, last.rows[j])
           /\ \A j, k \in 1..Len(last.rows) : j # k => last.rows[j] # last.rows[k]

(* a search with topK = 1 returned one result from a store of two chunks *)
C7_Witness ==
    /\ last.op = "search"
    /\ last.error = "none"
    /\ last.topK = 1
    /\ CountChunks(chunks) = 2
    /\ Len(last.result) = 1

(* C8: the results of search are in non-increasing order of score, and no  *)
(* stored chunk that is left out has a score strictly greater than that of *)
(* a returned chunk.                                                       *)
C8_ResultsRankedByScore ==
    (last.op = "search" /\ last.error = "none")
        => /\ \A j \in 1..(Len(last.result) - 1) :
                ~ScoreLess(last.result[j].score, last.result[j + 1].score)
           /\ \A m \in 1..Len(chunks) :
                (/\ HasEmbedding(embeddings, chunks[m].id)
                 /\ \A j \in 1..Len(last.rows) : last.rows[j] # chunks[m].id)
                    => \A j \in 1..Len(last.result) :
                          ~ScoreLess(last.result[j].score,
                                     CosineSimilarity(last.query,
                                        EmbeddingOf(embeddings, chunks[m].id)))

(* a search with topK = 1 over two chunks of different score returned the  *)
(* chunk of the later row                                                  *)
C8_Witness ==
    /\ last.op = "search"
    /\ last.error = "none"
    /\ last.topK = 1
    /\ Len(chunks) = 2
    /\ Len(last.rows) = 1
    /\ last.rows[1] = chunks[2].id
    /\ ScoreLess(CosineSimilarity(last.query, EmbeddingOf(embeddings, chunks[1].id)),
                 last.result[1].score)

NonZero(v) == \E i \in 1..Len(v) : v[i] # 0

Proportional(a, b) ==
    \A i, j \in 1..Len(a) : a[i] * b[j] = a[j] * b[i]

(* b is a positive multiple of a *)
SameDirection(a, b) ==
    NonZero(a) /\ NonZero(b) /\ Proportional(a, b) /\ DotProduct(a, b) > 0

(* b is a negative multiple of a *)
Opposite(a, b) ==
    NonZero(a) /\ NonZero(b) /\ Proportional(a, b) /\ DotProduct(a, b) < 0

(* in a returned search, a stored vector orthogonal to the query scores 0  *)
(* and one opposite to it scores -1                                        *)
OrthogonalAndOppositeScores ==
    (last.op = "search" /\ last.error = "none")
        => \A j \in 1..Len(last.rows) :
              LET stored == EmbeddingOf(embeddings, last.rows[j])
              IN  /\ DotProduct(last.query, stored) = 0
                        => last.result[j].score = ScoreZero
                  /\ Opposite(last.query, stored)
                        => last.result[j].score = ScoreMinusOne

(* "approximately 1" for the score of query v against what storage kept   *)
(* of v: exactly 1 when storage keeps v as it is; when storage rounds v    *)
(* the rounding step of this model is far coarser than float32, so only    *)
(* the sign of the score is compared                                       *)
ApproximatelyOne(score, v) ==
    IF EncodeEmbedding(v) = v THEN score = ScoreOne ELSE score.sgn = 1

C10_SnippetTruncation ==
    (last.op = "search" /\ last.error = "none")
        => \A j \in 1..Len(last.rows) :
              LET content == Chars(ChunkRowOf(chunks, last.rows[j]).content)
                  snippet == last.result[j].snippet
              IN  /\ Len(content) <= 200 => snippet = content
                  /\ Len(content) > 200
                        => /\ snippet = SubSeq(content, 1, 200) \o <<".", ".", ".">>
                           /\ Len(snippet) = 203
                  /\ Len(snippet) <= 203

(* a search returned a snippet of 203 characters and one of 200 that is    *)
(* the whole content                                                       *)
C10_Witness ==
    /\ last.op = "search"
    /\ last.error = "none"
    /\ \E j \in 1..Len(last.result) : Len(last.result[j].snippet) = 203
    /\ \E j \in 1..Len(last.result) :
          /\ Len(last.result[j].snippet) = 200
          /\ last.result[j].snippet = Chars(ChunkRowOf(chunks, last.rows[j]).content)

(* C11: when upsert replaces a stored id, the created_at of its row keeps  *)
(* the value it had (so, by induction, that of the first insertion), and   *)
(* updated_at becomes the time of the replacing upsert.                    *)
C11_ReplaceKeepsCreatedAt ==
    [][(txn.active /\ ~txn'.active /\ last'.error = "none")
          => \A id \in BatchIds(txn.batch) :
                HasChunk(txn.snapshot.chunks, id)
                  => /\ ChunkRowOf(chunks', id).created_at
                            = ChunkRowOf(txn.snapshot.chunks, id).created_at
                     /\ ChunkRowOf(chunks', id).updated_at >= txn.began
                     /\ ChunkRowOf(chunks', id).updated_at <= now']_vars

(* the valid calls of search *)
ValidSearchInputs ==
    {input \in SearchInputs :
        Len(input[1]) = Dim /\ input[2] >= 1 /\ input[2] <= MaxTopK}

(* C12: from just before close() to the store opened next on the same file *)
(* with the same dimensions, getStats().chunkCount and the results of      *)
(* every valid search (titles, urls, scores, snippets) stay the same: the  *)
(* step that closes, every step taken while closed and the step that       *)
(* reopens keep them.                                                      *)
C12_ReopenPreservesContent ==
    [][(handle' = "Closed" \/ (handle = "Closed" /\ handle' = "Open"))
          => /\ dimensions' = dimensions
             /\ \/ (chunks' = chunks /\ embeddings' = embeddings)
                \/ /\ CountChunks(chunks') = CountChunks(chunks)
                   /\ \A input \in ValidSearchInputs :
                        SearchOn([chunks |-> chunks', embeddings |-> embeddings'],
                                 input[1], input[2])
                          = SearchOn([chunks |-> chunks, embeddings |-> embeddings],
                                     input[1], input[2])]_vars

(* a store holding two chunks was closed and a new instance was opened on  *)
(* its file                                                                *)
C12_Witness ==
    /\ last.op = "construct"
    /\ last.handle = "Closed"
    /\ handle = "Open"
    /\ CountChunks(chunks) = 2
    /\ Len(embeddings) = 2

(* C13: when clear() has returned successfully, whatever was stored, the   *)
(* chunk count is 0, every valid search returns the empty sequence, the    *)
(* dimensions are what they were, and the store is in the state of a       *)
(* freshly constructed one, so that later upserts work as on a fresh       *)
(* store.                                                                  *)
C13_ClearEmptiesStore ==
    (last.op = "clear" /\ last.error = "none")
        => /\ CountChunks(chunks) = 0
           /\ \A input \in ValidSearchInputs :
                /\ SearchError(chunks, embeddings, input[1], input[2],
                               handle, dimensions) = "none"
                /\ SearchOn([chunks |-> chunks, embeddings |-> embeddings],
                            input[1], input[2]) = << >>
           /\ dimensions = Dim
           /\ handle = "Open"
           /\ [chunks |-> chunks, embeddings |-> embeddings] = EmptyTables
           /\ txn = IdleTxn

(* clear() returned on a store that held two chunks *)
C13_Witness ==
    /\ last.op = "clear"
    /\ last.error = "none"
    /\ Cardinality(last.stored) = 2
    /\ CountChunks(chunks) = 0

(* the tables without the timestamps of the rows *)
Unstamped(t) ==
    [chunks |-> [j \in 1..Len(t.chunks) |-> Metadata(t.chunks[j])],
     embeddings |-> t.embeddings]

(* every stored id has the metadata and the embedding of one and the same  *)
(* committed batch, the one that wrote it last                             *)
RowsOfOneBatch(c, e, u) ==
    \A id \in Ids :
        IF u[id].present
        THEN /\ HasChunk(c, id) /\ HasEmbedding(e, id)
             /\ ChunkRowOf(c, id).title = u[id].title
             /\ ChunkRowOf(c, id).document_url = u[id].url
             /\ EmbeddingOf(e, id) = EncodeEmbedding(u[id].embedding)
        ELSE ~HasChunk(c, id) /\ ~HasEmbedding(e, id)

C15_ZeroVectorScoresZero ==
    (/\ last.op = "search"
     /\ last.handle = "Open"
     /\ Len(last.query) = Dim
     /\ last.topK >= 1
     /\ last.topK <= MaxTopK)
        => /\ last.error = "none"
           /\ \A j \in 1..Len(last.rows) :
                (\/ ~NonZero(last.query)
                 \/ ~NonZero(EmbeddingOf(embeddings, last.rows[j])))
                    => last.result[j].score = ScoreZero
           /\ last.topK >= CountChunks(chunks)
                => \A id \in Ids :
                      HasEmbedding(embeddings, id)
                        => \E j \in 1..Len(last.rows) : last.rows[j] = id

(* a search with the zero vector as query returned two chunks, one stored  *)
(* with a zero vector and one with a non-zero vector                       *)
C15_Witness ==
    /\ last.op = "search"
    /\ last.error = "none"
    /\ last.query = ZeroVector
    /\ Len(last.rows) = 2
    /\ \E j \in 1..2 : ~NonZero(EmbeddingOf(embeddings, last.rows[j]))
    /\ \E j \in 1..2 : NonZero(EmbeddingOf(embeddings, last.rows[j]))

Chunked == chunker.phase \in {"chunked", "rechunked"}

(* the sections of the document given to the chunker *)
SectionsOfDoc == ExtractSections(chunker.doc.content, chunker.doc.title)

AllSectionsFit ==
    \A k \in 1..Len(SectionsOfDoc) :
        EstimateTokens(SectionsOfDoc[k].content) <= chunker.config.maxTokens

(* C16: when every section of the document has a token estimate of at most *)
(* maxTokens, chunkDocument returns one chunk per section, in the order of *)
(* the sections, each with the section's whole (non-blank) content, its    *)
(* title, startOffset 0 and endOffset the length of the content.           *)
C16_SmallSectionsOneChunkEach ==
    (Chunked /\ AllSectionsFit)
        => /\ Len(chunker.chunks) = Len(SectionsOfDoc)
           /\ \A k \in 1..Len(SectionsOfDoc) :
                /\ chunker.chunks[k].content = SectionsOfDoc[k].content
                /\ ~IsBlank(chunker.chunks[k].content)
                /\ chunker.chunks[k].title = SectionsOfDoc[k].title
                /\ chunker.chunks[k].startOffset = 0
                /\ chunker.chunks[k].endOffset = Len(SectionsOfDoc[k].content)

(* a document of two small sections has been chunked into two chunks *)
C16_Witness ==
    /\ Chunked
    /\ AllSectionsFit
    /\ Len(SectionsOfDoc) = 2
    /\ Len(chunker.chunks) = 2
    /\ chunker.chunks[1].title # chunker.chunks[2].title

(* C17: every chunk chunkDocument returns has a tokenCount equal to the    *)
(* token estimate of its content.                                          *)
C17_TokenCountIsEstimate ==
    Chunked
        => \A k \in 1..Len(chunker.chunks) :
              chunker.chunks[k].tokenCount = EstimateTokens(chunker.chunks[k].content)

(* C18: the chunks one call of chunkDocument returns have pairwise         *)
(* different ids.                                                          *)
C18_IdsPairwiseDistinct ==
    Chunked
        => \A j, k \in 1..Len(chunker.chunks) :
              j # k => chunker.chunks[j].id # chunker.chunks[k].id

OccursIn(s, text) ==
    \E p \in 1..(Len(text) - Len(s) + 1) : SubSeq(text, p, p + Len(s) - 1) = s

(* C20: with overlapTokens > 0, whenever the splitting of an oversized     *)
(* section closes a chunk before the end of the section, the overlap the   *)
(* next chunk starts with is not empty, and every two consecutive chunks   *)
(* of the section have a whole sentence in common.                         *)
C20_OverlapNeverEmpty ==
    (Chunked /\ chunker.config.overlapTokens > 0)
        => \A k \in 1..Len(SectionsOfDoc) :
              LET section == SectionsOfDoc[k]
                  sentences == SplitIntoSentences(section.content)
                  split == SplitSection(section, chunker.doc.url, chunker.config)
                  parts == ChunkSection(section, chunker.doc.url, chunker.config)
              IN  EstimateTokens(section.content) > chunker.config.maxTokens
                    => /\ \A c \in 1..Len(split.cuts) :
                            Len(split.cuts[c].overlap) > 0
                       /\ \A j \in 1..(Len(parts) - 1) :
                            \E s \in 1..Len(sentences) :
                                /\ OccursIn(sentences[s], parts[j].content)
                                /\ OccursIn(sentences[s], parts[j + 1].content)

(* C21: constructing a chunker fails exactly when, after a missing field   *)
(* has taken its default (minTokens 500, maxTokens 1000, overlapTokens      *)
(* 75), minTokens >= maxTokens or overlapTokens >= minTokens or            *)
(* overlapTokens < 0; every other configuration is constructed, with the   *)
(* given values and the defaults as its configuration.                     *)
C21_ConstructorFailsExactlyOnInvalid ==
    chunker.phase # "idle"
        => LET min == IF chunker.given.minTokens = << >> THEN 500
                      ELSE chunker.given.minTokens[1]
               max == IF chunker.given.maxTokens = << >> THEN 1000
                      ELSE chunker.given.maxTokens[1]
               overlap == IF chunker.given.overlapTokens = << >> THEN 75
                          ELSE chunker.given.overlapTokens[1]
           IN  /\ chunker.phase = "failed"
                    <=> (min >= max \/ overlap >= min \/ overlap < 0)
               /\ chunker.phase = "failed" <=> chunker.error # "none"
               /\ chunker.phase # "failed"
                    => chunker.config = [minTokens |-> min, maxTokens |-> max,
                                         overlapTokens |-> overlap]

(* the constructor has failed for an argument without minTokens, whose     *)
(* maxTokens and overlapTokens are valid for each other                    *)
C21_Witness ==
    /\ chunker.phase = "failed"
    /\ chunker.given.minTokens = << >>
    /\ chunker.given.maxTokens = <<4>>
    /\ chunker.given.overlapTokens = <<1>>

(* C22: chunkDocument does not throw, whatever the content of the          *)
(* document: a document whose content is empty or only whitespace gives    *)
(* the empty list of chunks, and an error comes from the constructor only. *)
C22_ChunkDocumentNeverThrows ==
    /\ Chunked
        => /\ chunker.error = "none"
           /\ IsBlank(chunker.doc.content) => chunker.chunks = << >>
    /\ (chunker.phase # "idle" /\ chunker.error # "none")
        => chunker.phase = "failed"

(* a document of spaces and a newline has been chunked into no chunk *)
C22_Witness ==
    /\ Chunked
    /\ Len(chunker.doc.content) > 1
    /\ IsBlank(chunker.doc.content)
    /\ \E i \in 1..Len(chunker.doc.content) : chunker.doc.content[i] = " "
    /\ chunker.chunks = << >>
    /\ chunker.error = "none"

(* C23: every chunk chunkDocument returns has 0 <= startOffset <=          *)
(* endOffset, and its endOffset is at most the length of the content of    *)
(* the section it was cut from, and so at most the length of the content   *)
(* of the document; also when the chunk starts with an overlap.            *)
C23_OffsetsWithinContent ==
    Chunked
        => /\ \A k \in 1..Len(chunker.chunks) :
                /\ 0 <= chunker.chunks[k].startOffset
                /\ chunker.chunks[k].startOffset <= chunker.chunks[k].endOffset
                /\ chunker.chunks[k].endOffset <= Len(chunker.doc.content)
           /\ \A k \in 1..Len(SectionsOfDoc) :
                LET parts == ChunkSection(SectionsOfDoc[k], chunker.doc.url,
                                          chunker.config)
                IN  \A j \in 1..Len(parts) :
                        parts[j].endOffset <= Len(SectionsOfDoc[k].content)

(* C24: no chunk chunkDocument returns has content that is empty or only   *)
(* whitespace, for any document and any valid configuration; this holds    *)
(* for the chunk made after the loop over the sentences and for a chunk    *)
(* that consists of overlap only.                                          *)
C24_NoBlankChunk ==
    Chunked
        => \A k \in 1..Len(chunker.chunks) :
              /\ Len(chunker.chunks[k].content) > 0
              /\ ~IsBlank(chunker.chunks[k].content)

(* a document with a heading without body has been chunked, and the last   *)
(* chunk of one of its sections, which was split, is the overlap made at   *)
(* the last cut                                                            *)
C24_Witness ==
    /\ Chunked
    /\ Len(chunker.chunks) > 0
    /\ Len(SectionsOfDoc) = 1
    /\ \E i \in 1..Len(chunker.doc.content) : chunker.doc.content[i] = "#"
    /\ EstimateTokens(SectionsOfDoc[1].content) > chunker.config.maxTokens
    /\ LET split == SplitSection(SectionsOfDoc[1], chunker.doc.url, chunker.config)
       IN  /\ Len(split.cuts) > 0
           /\ chunker.chunks[Len(chunker.chunks)].content
                = split.cuts[Len(split.cuts)].overlap

(* the number of words of a text: its maximal runs of characters that are  *)
(* not whitespace                                                          *)
WordsIn(text) ==
    Cardinality({i \in 1..Len(text) :
                    ~IsSpace(text[i]) /\ (i = 1 \/ IsSpace(text[i - 1]))})

(* the length of a text when its words are separated by one space each *)
NormalizedLength(text) ==
    Cardinality({i \in 1..Len(text) : ~IsSpace(text[i])}) + WordsIn(text) - 1

(* the text with whitespace before and after it *)
Padded(text) == <<" ", "\n">> \o text \o <<"\n", " ", " ">>

(* the text with every space made a newline and every newline a space *)
OtherWhitespace(text) ==
    [i \in 1..Len(text) |->
        IF text[i] = " " THEN "\n" ELSE IF text[i] = "\n" THEN " " ELSE text[i]]

(* the characters lo..hi of the text, with a newline and a space put after *)
(* every whitespace character                                              *)
RECURSIVE LongerRuns(_, _, _)
LongerRuns(text, lo, hi) ==
    IF lo > hi THEN << >>
    ELSE IF lo = hi
    THEN IF IsSpace(text[lo]) THEN <<text[lo], "\n", " ">> ELSE <<text[lo]>>
    ELSE LongerRuns(text, lo, (lo + hi) \div 2)
            \o LongerRuns(text, (lo + hi) \div 2 + 1, hi)

(* the texts estimateTokens is looked at for: the content of the document  *)
(* and of its sections                                                     *)
TextsOfDoc ==
    {chunker.doc.content}
        \cup {SectionsOfDoc[k].content : k \in 1..Len(SectionsOfDoc)}

(* C25: estimateTokens gives 0 for a text that is empty or only            *)
(* whitespace, and otherwise the positive integer                          *)
(* ceil((charCount / 4 + wordCount / 0.75) / 2) for the text with its      *)
(* whitespace normalized, which is the least e with 3 * charCount + 16 *   *)
(* wordCount <= 24 * e; texts that differ only in whitespace before and    *)
(* after, or in the kind and the length of the runs of whitespace between  *)
(* words, have the same estimate.                                          *)
C25_EstimateOfNormalizedText ==
    Chunked
        => \A text \in TextsOfDoc :
              LET e == EstimateTokens(text)
                  weight == 3 * NormalizedLength(text) + 16 * WordsIn(text)
              IN  /\ IsBlank(text) => e = 0
                  /\ ~IsBlank(text)
                        => /\ e >= 1
                           /\ weight <= 24 * e
                           /\ weight > 24 * (e - 1)
                  /\ EstimateTokens(Padded(text)) = e
                  /\ EstimateTokens(OtherWhitespace(text)) = e
                  /\ EstimateTokens(LongerRuns(text, 1, Len(text))) = e

(* a document that has two words separated by two whitespace characters   *)
(* has been chunked into one chunk, whose tokenCount is the estimate of    *)
(* the document's content                                                  *)
C25_Witness ==
    /\ Chunked
    /\ Len(chunker.chunks) = 1
    /\ Len(chunker.doc.content) > 2
    /\ \E i \in 2..(Len(chunker.doc.content) - 2) :
          /\ ~IsSpace(chunker.doc.content[i - 1])
          /\ IsSpace(chunker.doc.content[i])
          /\ IsSpace(chunker.doc.content[i + 1])
          /\ ~IsSpace(chunker.doc.content[i + 2])
    /\ chunker.chunks[1].tokenCount = EstimateTokens(chunker.doc.content)
    /\ chunker.chunks[1].tokenCount >= 2

(* the sections of the document whose token estimate exceeds maxTokens *)
OversizedSections ==
    {k \in 1..Len(SectionsOfDoc) :
        EstimateTokens(SectionsOfDoc[k].content) > chunker.config.maxTokens}

(* the chunks chunkSection makes of section k *)
PartsOf(k) == ChunkSection(SectionsOfDoc[k], chunker.doc.url, chunker.config)

(* the state of the loop over the sentences of section k, after the loop *)
SplitOf(k) == SplitSection(SectionsOfDoc[k], chunker.doc.url, chunker.config)

(* C26: when an oversized section is split, every sentence the sentence    *)
(* splitter makes of the section occurs in the content of at least one of  *)
(* the section's chunks: the sentence at which a chunk is closed and the   *)
(* last sentence of the section are not lost.                              *)
C26_NoSentenceLost ==
    Chunked
        => \A k \in OversizedSections :
              LET sentences == SplitIntoSentences(SectionsOfDoc[k].content)
              IN  \A s \in 1..Len(sentences) :
                     \E j \in 1..Len(PartsOf(k)) :
                        OccursIn(Trim(sentences[s]), PartsOf(k)[j].content)

(* the lines of the content of the document *)
LinesOfDoc == SplitFrom(chunker.doc.content, 1, LineBreaks(chunker.doc.content))

(* C27: every line of the document that is not a heading and not blank is  *)
(* in the body of some section, also a line before the first heading; so,  *)
(* when every section fits in one chunk, it is in the content of some      *)
(* chunk.                                                                  *)
C27_NoLineLost ==
    Chunked
        => \A i \in 1..Len(LinesOfDoc) :
              (~HeaderMatch(LinesOfDoc[i]).matched /\ ~IsBlank(LinesOfDoc[i]))
                => /\ \E k \in 1..Len(SectionsOfDoc) :
                        OccursIn(Trim(LinesOfDoc[i]), SectionsOfDoc[k].content)
                   /\ AllSectionsFit
                        => \E k \in 1..Len(chunker.chunks) :
                              OccursIn(Trim(LinesOfDoc[i]), chunker.chunks[k].content)

(* C28: in the split path a chunk is closed before the end of the section  *)
(* only when the running token total of the buffer is at least minTokens:  *)
(* every chunk closed inside the loop, and so every chunk of an oversized  *)
(* section but the last, has tokenCount >= minTokens, also when that makes *)
(* it exceed maxTokens.                                                    *)
C28_CutOnlyAtMinTokens ==
    Chunked
        => \A k \in OversizedSections :
              LET closed == SplitOf(k).chunks
                  parts == PartsOf(k)
              IN  /\ \A j \in 1..Len(closed) :
                        closed[j].tokenCount >= chunker.config.minTokens
                  /\ \A j \in 1..(Len(parts) - 1) :
                        parts[j].tokenCount >= chunker.config.minTokens

(* a chunk was closed inside the loop with a tokenCount above maxTokens *)
C28_Witness ==
    /\ Chunked
    /\ \E k \in OversizedSections :
          /\ Len(SplitOf(k).cuts) > 0
          /\ SplitOf(k).chunks[1].tokenCount > chunker.config.maxTokens
          /\ chunker.chunks[1] = SplitOf(k).chunks[1]

(* C29: when an oversized section is split and each of its sentences has a *)
(* token estimate of at most maxTokens - minTokens, every chunk of the     *)
(* section has tokenCount <= maxTokens, the chunks that begin with an      *)
(* overlap and the final chunk included.                                   *)
C29_ChunksWithinMaxTokens ==
    Chunked
        => \A k \in OversizedSections :
              LET sentences == SplitIntoSentences(SectionsOfDoc[k].content)
              IN  (\A s \in 1..Len(sentences) :
                        EstimateTokens(sentences[s])
                            <= chunker.config.maxTokens - chunker.config.minTokens)
                    => \A j \in 1..Len(PartsOf(k)) :
                          PartsOf(k)[j].tokenCount <= chunker.config.maxTokens

(* the running character position of sentence i in the stream of the       *)
(* sentences: the lengths of the sentences before it, plus 1 for each      *)
StreamPosition(sentences, i) ==
    SumTo([j \in 1..(i - 1) |-> Len(sentences[j]) + 1], i - 1)

(* C30: after a chunk is closed inside the loop, the startOffset of the    *)
(* next chunk is the running character position at which its overlap       *)
(* begins, so that the content of that chunk is the text of the sentence   *)
(* stream between its startOffset and its endOffset.                       *)
C30_StartOffsetAtOverlap ==
    Chunked
        => \A k \in OversizedSections :
              LET sentences == SplitIntoSentences(SectionsOfDoc[k].content)
                  stream == Join(sentences, <<" ">>)
                  cuts == SplitOf(k).cuts
              IN  \A c \in 1..Len(cuts) :
                     c + 1 <= Len(PartsOf(k))
                       => LET chunk == PartsOf(k)[c + 1]
                          IN  /\ Len(cuts[c].overlap) > 0
                                    => chunk.startOffset
                                         = StreamPosition(sentences, cuts[c].at)
                                             - Len(cuts[c].overlap) - 1
                              /\ chunk.endOffset <= Len(stream)
                              /\ chunk.content
                                    = SubSeq(stream, chunk.startOffset + 1,
                                             chunk.endOffset)

(* the lines of the document that are headings *)
HeadingLines == {i \in 1..Len(LinesOfDoc) : HeaderMatch(LinesOfDoc[i]).matched}

(* the body of the heading at line i: the lines after it up to the next    *)
(* heading or the end, joined and trimmed                                  *)
BodyOf(i) ==
    LET later == {h \in HeadingLines : h > i}
        stop == IF later = {} THEN Len(LinesOfDoc) + 1
                ELSE CHOOSE h \in later : \A g \in later : h <= g
    IN  Trim(Join(SubSeq(LinesOfDoc, i + 1, stop - 1), <<"\n">>))

(* the headings whose body is not empty *)
KeptHeadings == {i \in HeadingLines : Len(BodyOf(i)) > 0}

(* C31: section extraction drops every section whose trimmed body is       *)
(* empty and keeps the others in the order of the document, each with the  *)
(* text of its heading as title and its trimmed body as content; when no   *)
(* section is left, the result is one section with the title of the        *)
(* document, level 1 and the trimmed whole document as content, or no      *)
(* section if that is empty.                                               *)
C31_SectionsKeptInOrder ==
    Chunked
        => IF KeptHeadings # {}
           THEN /\ Len(SectionsOfDoc) = Cardinality(KeptHeadings)
                /\ \A k \in 1..Len(SectionsOfDoc) :
                      LET i == SectionsOfDoc[k].startLine + 1
                      IN  /\ i \in KeptHeadings
                          /\ Cardinality({h \in KeptHeadings : h < i}) = k - 1
                          /\ SectionsOfDoc[k].title
                                = Trim(HeaderMatch(LinesOfDoc[i]).title)
                          /\ SectionsOfDoc[k].level
                                = HeaderMatch(LinesOfDoc[i]).level
                          /\ SectionsOfDoc[k].content = BodyOf(i)
           ELSE IF IsBlank(chunker.doc.content)
           THEN SectionsOfDoc = << >>
           ELSE SectionsOfDoc
                    = <<[title |-> chunker.doc.title, level |-> 1,
                         content |-> Trim(chunker.doc.content), startLine |-> 0]>>

(* a document of a heading without body and, after it, a heading with its  *)
(* body has been chunked: one section, that of the second heading          *)
C31_Witness ==
    /\ Chunked
    /\ Cardinality(HeadingLines) = 2
    /\ Cardinality(KeptHeadings) = 1
    /\ Len(SectionsOfDoc) = 1
    /\ SectionsOfDoc[1].startLine > 0
    /\ Len(chunker.chunks) >= 1
    /\ chunker.chunks[1].title = SectionsOfDoc[1].title

(* the ids that have a metadata record, and those that have an embedding   *)
(* record                                                                  *)
MetadataIds == {id \in Ids : HasChunk(chunks, id)}

EmbeddingIds == {id \in Ids : HasEmbedding(embeddings, id)}

(* C32: in every state of an open store in which no operation is in        *)
(* progress, the ids with a metadata record are the ids with an embedding  *)
(* record, whatever upserts and clears have completed, with success or     *)
(* with an error; so the count getStats reports is the number of chunks a  *)
(* search that asks for all of them returns.                               *)
C32_RecordSetsAligned ==
    (~txn.active /\ handle = "Open")
        => /\ MetadataIds = EmbeddingIds
           /\ CountChunks(chunks)
                = Len(SearchOn([chunks |-> chunks, embeddings |-> embeddings],
                               ZeroVector, MaxTopK))

(* every stored embedding has the length the open instance was constructed *)
(* with, and the search just made with a valid query did not fail          *)
StoredLengthsFit ==
    /\ handle = "Open"
        => \A j \in 1..Len(embeddings) :
              Len(DecodeEmbedding(embeddings[j].embedding)) = dimensions
    /\ (/\ last.op = "search"
        /\ last.handle = "Open"
        /\ Len(last.query) = dimensions
        /\ last.topK >= 1
        /\ last.topK <= MaxTopK)
        => last.error = "none"

(* C33: the dimensions of a store instance do not change after its         *)
(* construction (only the construction of a new instance sets them), and   *)
(* in every state every stored embedding has the length of the dimensions  *)
(* of the instance that reads it, also after the file was closed and       *)
(* opened by a new instance; so no search with a valid query fails for the *)
(* length of a stored vector.                                              *)
C33_StoredVectorsHaveInstanceDimensions ==
    [][/\ dimensions' # dimensions => last'.op = "construct"
       /\ StoredLengthsFit']_vars

(* C34: search and getStats are read-only: whatever the arguments, and     *)
(* whether the call succeeds or fails, the chunk and embedding records and *)
(* the Open/Closed state of the handle are after the call what they were   *)
(* before it, and the same search made again on the unchanged store        *)
(* returns the same results in the same order.                             *)
C34_SearchAndGetStatsReadOnly ==
    [][(last' # last /\ last'.op \in {"search", "getStats"})
          => /\ chunks' = chunks
             /\ embeddings' = embeddings
             /\ handle' = handle
             /\ (/\ last.op = "search"
                 /\ last'.op = "search"
                 /\ last'.query = last.query
                 /\ last'.topK = last.topK)
                 => /\ last'.error = last.error
                    /\ last'.result = last.result
                    /\ last'.rows = last.rows]_vars

(* a search that succeeded on a store with chunks and returned two of them *)
C34_Witness ==
    /\ last.op = "search"
    /\ last.error = "none"
    /\ Len(last.result) >= 2
    /\ Len(embeddings) >= 2
    /\ handle = "Open"

Stages == <<"crawling", "chunking", "embedding", "storing", "complete">>

(* C35: buildIndex reports its stages in the order crawling, chunking,     *)
(* embedding, storing, complete, each at most once; it reports 'complete'  *)
(* only after the upsert of the vector store has succeeded, and a stage    *)
(* only after the work of every earlier stage has finished successfully.   *)
C35_StagesInOrder ==
    rag.call = "buildIndex"
        => /\ Len(rag.stages) <= Len(Stages)
           /\ rag.stages = SubSeq(Stages, 1, Len(rag.stages))
           /\ Len(rag.stages) >= 2
                => /\ rag.crawled
                   /\ Len(rag.documents) > 0
           /\ Len(rag.stages) >= 3
                => rag.allChunks = FlatMapChunks(rag.documents)
           /\ Len(rag.stages) >= 4
                => /\ rag.embedCalls = 1
                   /\ rag.embedded
           /\ Len(rag.stages) >= 5
                => /\ rag.upsertCalls = 1
                   /\ rag.upsertError = "none"
                   /\ rag.phase = "resolved"
                   /\ AllStored(rag.batch, chunks, embeddings)

(* a buildIndex that reported the five stages after storing two chunks *)
C35_Witness ==
    /\ rag.call = "buildIndex"
    /\ rag.stages = Stages
    /\ Len(rag.batch) = 2
    /\ Len(chunks) = 2

(* C36: when a stage of buildIndex fails, no later stage runs and the      *)
(* promise rejects with a HyperliquidError: after a crawl that returned no *)
(* document it rejects with CRAWL_FAILED and neither embed nor upsert was  *)
(* called; when the embedding fails, upsert is never called and the store  *)
(* is as it was; an error that is not a HyperliquidError is wrapped as     *)
(* INDEX_BUILD_FAILED.                                                     *)
C36_FailedStageStopsBuild ==
    (rag.call = "buildIndex" /\ rag.thrown # "none")
        => /\ rag.phase = "rejected"
           /\ IsHyperliquidError(rag.error)
           /\ rag.error = IF rag.thrown = "Error" THEN "INDEX_BUILD_FAILED"
                          ELSE rag.thrown
           /\ rag.stages[Len(rag.stages)] # "complete"
           /\ (rag.crawled /\ Len(rag.documents) = 0)
                => /\ rag.error = "CRAWL_FAILED"
                   /\ rag.stages = <<"crawling">>
                   /\ rag.embedCalls = 0
                   /\ rag.upsertCalls = 0
           /\ ~rag.crawled
                => /\ rag.stages = <<"crawling">>
                   /\ rag.embedCalls = 0
                   /\ rag.upsertCalls = 0
           /\ (rag.crawled /\ Len(rag.documents) > 0 /\ ~rag.embedded)
                => /\ rag.stages = SubSeq(Stages, 1, 3)
                   /\ rag.upsertCalls = 0
                   /\ chunks = rag.before.chunks
                   /\ embeddings = rag.before.embeddings
           /\ rag.embedded
                => /\ rag.stages = SubSeq(Stages, 1, 4)
                   /\ rag.error = rag.upsertError

(* a buildIndex on a store with chunks whose embed rejected with an error  *)
(* that is not a HyperliquidError                                          *)
C36_Witness ==
    /\ rag.call = "buildIndex"
    /\ rag.phase = "rejected"
    /\ rag.thrown = "Error"
    /\ rag.embedCalls = 1
    /\ ~rag.embedded
    /\ Len(chunks) > 0

(* C37: search(query, options) rejects with INVALID_INPUT, before any      *)
(* embedding request and any access to the vector store, whenever the      *)
(* query is empty or only whitespace or the topK given is outside 1..100,  *)
(* 0 included; a topK given inside the range is passed unchanged to the    *)
(* vector store, and a missing topK is 5.                                  *)
C37_SearchValidatesFirst ==
    rag.call = "search"
        => /\ (\/ IsBlank(rag.query)
               \/ /\ rag.given # Missing
                  /\ (rag.given[1] < 1 \/ rag.given[1] > RagMaxTopK))
                => /\ rag.phase = "rejected"
                   /\ rag.error = "INVALID_INPUT"
                   /\ rag.embedCalls = 0
                   /\ rag.storeCalls = << >>
           /\ \A j \in 1..Len(rag.storeCalls) :
                rag.storeCalls[j][2] = IF rag.given = Missing THEN DefaultTopK
                                       ELSE rag.given[1]

Failed(results) == \A j \in 1..Len(results) : results[j] # "ok"

(* C38: fetchWithRetry ends after at most maxRetries fetch attempts for    *)
(* one url: it returns the body of the first successful response and makes *)
(* no attempt after it, and when every attempt fails (network error,       *)
(* status that is not ok, or 429) it rejects with NETWORK_ERROR after      *)
(* exactly maxRetries attempts.                                            *)
C38_FetchWithRetryBounded ==
    crawler.phase # "idle"
        => /\ crawler.issued <= crawler.maxRetries
           /\ crawler.attempt <= crawler.maxRetries + 1
           /\ crawler.issued = Len(crawler.results)
                                 + (IF crawler.phase = "fetching" THEN 1 ELSE 0)
           /\ Failed(SubSeq(crawler.results, 1, Len(crawler.results) - 1))
           /\ crawler.phase = "resolved"
                <=> /\ Len(crawler.results) > 0
                    /\ crawler.results[Len(crawler.results)] = "ok"
           /\ crawler.phase = "resolved" => crawler.body = Len(crawler.results)
           /\ crawler.phase = "rejected"
                => /\ crawler.error = "NETWORK_ERROR"
                   /\ crawler.issued = crawler.maxRetries
                   /\ Failed(crawler.results)
           /\ (Failed(crawler.results) /\ Len(crawler.results) = crawler.maxRetries)
                => crawler.phase \in {"sleeping", "rejected"}

(* three attempts failed, the last with status 429, and the call rejected *)
C38_Witness ==
    /\ crawler.phase = "rejected"
    /\ crawler.maxRetries = CrawlerDefaultRetries
    /\ Len(crawler.results) = CrawlerDefaultRetries
    /\ crawler.results[CrawlerDefaultRetries] = "429"
    /\ crawler.results[1] = "network"

(* C39: makeRequest makes at most maxRetries + 1 fetch attempts for a      *)
(* request: a failure that is a HyperliquidError that is not retryable     *)
(* (status 400, VALIDATION_FAILED) is thrown after its attempt without a   *)
(* retry, a retryable failure (network error, 429, 5xx) is retried until a *)
(* response succeeds or the attempts are used up, and the request then     *)
(* rejects with a HyperliquidError.                                        *)
C39_MakeRequestBounded ==
    client.phase # "idle"
        => /\ client.issued <= client.maxRetries + 1
           /\ client.issued = Len(client.results)
                                + (IF client.phase = "fetching" THEN 1 ELSE 0)
           /\ \A j \in 1..(Len(client.results) - 1) :
                client.results[j] \notin {"ok", "400"}
           /\ \A j \in 1..Len(client.results) :
                /\ client.results[j] = "400"
                     => /\ client.phase = "rejected"
                        /\ client.error = "VALIDATION_FAILED"
                /\ client.results[j] = "ok"
                     => /\ client.phase = "resolved"
                        /\ client.data = j
                /\ (/\ client.results[j] \in {"network", "429", "500"}
                    /\ j < client.maxRetries + 1)
                     => \/ Len(client.results) > j
                        \/ client.issued > j
                        \/ client.phase = "sleeping"
           /\ client.phase = "rejected"
                => /\ IsHyperliquidError(client.error)
                   /\ client.error # "none"
                   /\ \/ client.results[Len(client.results)] = "400"
                      \/ client.issued = client.maxRetries + 1

(* a request retried after a network error, status 429 and status 500, and *)
(* rejected when the attempts were used up                                 *)
C39_Witness ==
    /\ client.phase = "rejected"
    /\ client.maxRetries = 2
    /\ client.results = <<"429", "500", "network">>
    /\ client.error = "NETWORK_ERROR"

====
